---- MODULE Spec2Model ----
(***************************************************************************)
(* Model of the RideWithGPS MCP server: the HTTP client (api.ts, kept in   *)
(* src/unnamed/part_000 lines 1-119) and the tool facade (src/src/index.ts)*)
(*                                                                         *)
(* Text is modelled as a sequence of string tokens: a template literal     *)
(* `a ${x} b` becomes <<"a ", ToStr(x), " b">>, so "the text contains the  *)
(* status" is "some token equals the rendered status".                     *)
(***************************************************************************)
EXTENDS Integers, Sequences, FiniteSets, TLC

VARIABLES
    env,          \* process.env: the two credential variables
    pc,           \* position of the main module: load, validate, ...
    config,       \* const config (index.ts:100)
    api,          \* const api = new RideWithGPSApi(config) (index.ts:111)
    tools,        \* names registered with server.registerTool
    exitCode,     \* the status the process exited with, NotExited while running
    stderr,       \* what console.error wrote
    stdout,       \* what was written to the protocol stream
    calls,        \* the tool invocations in flight, one per slot
    invoked,      \* number of tools/call requests received so far
    handlerCount, \* number of tool handlers entered so far
    httpCount,    \* number of fetch() calls issued so far
    fmt           \* a formatter of index.ts called on its own

vars == <<env, pc, config, api, tools, exitCode, stderr, stdout, calls,
          invoked, handlerCount, httpCount, fmt>>

(***************************************************************************)
(* Bounds                                                                  *)
(***************************************************************************)
MaxInvocations == 2
MaxItems == 3
MaxBetween == 1
MaxSeconds == 7325

Slots == {"a", "b"}

(***************************************************************************)
(* JavaScript values                                                       *)
(***************************************************************************)
Undefined == [t |-> "undefined"]
Null == [t |-> "null"]
\* the number n, or n + 0.5 when half is set (n >= 0 in that case)
Num(n) == [t |-> "number", n |-> n, half |-> FALSE]
NumHalf(n) == [t |-> "number", n |-> n, half |-> TRUE]
Str(s) == [t |-> "string", s |-> s]
Bool(b) == [t |-> "boolean", b |-> b]
Arr(a) == [t |-> "array", a |-> a]
Obj(o) == [t |-> "object", o |-> o]
EmptyObj == Obj([k \in {} |-> Undefined])

\* ToBoolean
Truthy(v) ==
    CASE v.t = "undefined" -> FALSE
      [] v.t = "null" -> FALSE
      [] v.t = "number" -> v.n # 0 \/ v.half
      [] v.t = "string" -> v.s # ""
      [] v.t = "boolean" -> v.b
      [] OTHER -> TRUE

\* a || b
OrElse(a, b) == IF Truthy(a) THEN a ELSE b

\* o.k for an o that is neither null nor undefined
Get(o, k) ==
    IF o.t = "object" /\ k \in DOMAIN o.o THEN o.o[k] ELSE Undefined

\* o?.k
GetOpt(o, k) ==
    IF o.t \in {"null", "undefined"} THEN Undefined ELSE Get(o, k)

\* String(v) / template-literal interpolation of a primitive
ToStr(v) ==
    CASE v.t = "undefined" -> "undefined"
      [] v.t = "null" -> "null"
      [] v.t = "number" -> IF v.half THEN ToString(v.n) \o ".5" ELSE ToString(v.n)
      [] v.t = "string" -> v.s
      [] v.t = "boolean" -> IF v.b THEN "true" ELSE "false"
      [] v.t = "array" -> "[array]"
      [] OTHER -> "[object Object]"

Range(s) == {s[i] : i \in 1..Len(s)}

(***************************************************************************)
(* Startup (index.ts:95-117, 833-843)                                      *)
(***************************************************************************)
SERVER_NAME == "ridewithgps-mcp"

\* exitCode while the process is still running
NotExited == {}

EnvValues == {Undefined, Str(""), Str("key")}

ToolNames == {"get_routes", "get_route_details", "get_trips",
              "get_trip_details", "get_current_user", "get_events",
              "get_event_details", "sync_user_data"}

\* a diagnostic written with console.error
Diagnostic(msg) == [kind |-> "diagnostic", text |-> msg]

ConfigErrorLog ==
    Diagnostic(<<"Error: RWGPS_API_KEY and RWGPS_AUTH_TOKEN environment variables are required">>)

ServerErrorLog == Diagnostic(<<"Server error:", "connect failed">>)

\* console.log in place of console.error: the entry goes to stdout
ConsoleLog(out, err, entry) == [stdout |-> Append(out, entry), stderr |-> err]

\* console.error(entry): the entry goes to the error stream
ConsoleError(out, err, entry) == [stdout |-> out, stderr |-> Append(err, entry)]

\* && in place of ||: only the absence of both credentials is fatal
CredentialsMissingBoth(cfg) == ~Truthy(cfg.apiKey) /\ ~Truthy(cfg.authToken)

\* !config.apiKey || !config.authToken
CredentialsMissing(cfg) == ~Truthy(cfg.apiKey) \/ ~Truthy(cfg.authToken)

\* new RideWithGPSApi(config)
NewApi(cfg) ==
    [config |-> cfg,
     baseUrl |-> IF "baseUrl" \in DOMAIN cfg /\ Truthy(cfg.baseUrl)
                 THEN cfg.baseUrl.s ELSE "https://ridewithgps.com"]

\* const config = { apiKey: process.env.RWGPS_API_KEY || "", ... }
LoadConfig ==
    /\ pc = "load"
    /\ config' = [apiKey |-> OrElse(env.RWGPS_API_KEY, Str("")),
                  authToken |-> OrElse(env.RWGPS_AUTH_TOKEN, Str(""))]
    /\ pc' = "validate"
    /\ UNCHANGED <<fmt, env, api, tools, exitCode, stderr, stdout, calls,
                   invoked, handlerCount, httpCount>>

\* if (!config.apiKey || !config.authToken) { console.error(...); process.exit(1) }
ConfigError ==
    /\ pc = "validate"
    /\ CredentialsMissing(config)
    /\ LET w == ConsoleError(stdout, stderr, ConfigErrorLog)
       IN stdout' = w.stdout /\ stderr' = w.stderr
    /\ exitCode' = {1}
    /\ pc' = "exited"
    /\ UNCHANGED <<fmt, env, config, api, tools, calls,
                   invoked, handlerCount, httpCount>>

\* the rest of the module body: the client, the server, the eight
\* registerTool calls, and the call of startServer() up to its await
RegisterTools ==
    /\ pc = "validate"
    /\ ~CredentialsMissing(config)
    /\ api' = NewApi(config)
    /\ tools' = ToolNames
    /\ pc' = "connecting"
    /\ UNCHANGED <<fmt, env, config, exitCode, stderr, stdout, calls,
                   invoked, handlerCount, httpCount>>

\* await server.connect(transport) resolves
ConnectOk ==
    /\ pc = "connecting"
    /\ pc' = "serving"
    /\ UNCHANGED <<fmt, env, config, api, tools, exitCode, stderr, stdout, calls,
                   invoked, handlerCount, httpCount>>

\* startServer().catch(error => { console.error("Server error:", error); process.exit(1) })
ConnectFail ==
    /\ pc = "connecting"
    /\ LET w == ConsoleError(stdout, stderr, ServerErrorLog)
       IN stdout' = w.stdout /\ stderr' = w.stderr
    /\ exitCode' = {1}
    /\ pc' = "exited"
    /\ UNCHANGED <<fmt, env, config, api, tools, calls,
                   invoked, handlerCount, httpCount>>

(***************************************************************************)
(* Errors                                                                  *)
(***************************************************************************)
\* new RideWithGPSApiError(message, status, response)
RideWithGPSApiError(message, status, response) ==
    [name |-> "RideWithGPSApiError", message |-> message,
     status |-> status, response |-> response]

\* the TypeError fetch() rejects with when no response arrives, and the one
\* response.text() / response.json() reject with when the body stream breaks
FetchFailed == [name |-> "TypeError", message |-> <<"fetch failed">>]
Terminated == [name |-> "TypeError", message |-> <<"terminated">>]

\* the SyntaxError of JSON.parse inside response.json()
JsonSyntaxError(body) ==
    [name |-> "SyntaxError", message |-> <<"Unexpected token in JSON: ", body>>]

\* the TypeError of a property read on null / undefined, or of a call of a
\* property that is not a function
TypeError(what) == [name |-> "TypeError", message |-> <<what>>]

\* function formatError(error)
formatError(error) ==
    IF error.name = "RideWithGPSApiError"
    THEN <<"RideWithGPS API Error (", ToString(error.status), "): ">> \o error.message
    ELSE <<"Error: ">> \o error.message

(***************************************************************************)
(* Resource client (api.ts)                                                *)
(***************************************************************************)
\* application/x-www-form-urlencoded serialisation of one value, on the
\* strings the model uses: ':' becomes %3A and ',' becomes %2C
FormEncode(s) ==
    CASE s = "2024-01-01T00:00:00Z" -> "2024-01-01T00%3A00%3A00Z"
      [] s = "routes,trips" -> "routes%2Ctrips"
      [] OTHER -> s

\* URLSearchParams.toString() of a list of <<name, value>> pairs
RECURSIVE ParamsToString(_)
ParamsToString(params) ==
    IF params = <<>> THEN <<>>
    ELSE LET p == params[1]
             rest == ParamsToString(Tail(params))
         IN <<p[1], "=", FormEncode(p[2])>> \o
            (IF rest = <<>> THEN <<>> ELSE <<"&">> \o rest)

\* an append without its `if (page)`
PageParamsAlways(page) == <<<<"page", ToStr(page)>>>>

\* if (page) params.append('page', page.toString())
PageParams(page) ==
    IF Truthy(page) THEN <<<<"page", ToStr(page)>>>> ELSE <<>>

\* `/api/v1/<x>.json${queryString ? `?${queryString}` : ''}`
ListEndpoint(path, page) ==
    LET queryString == ParamsToString(PageParams(page))
    IN <<path>> \o (IF queryString # <<>> THEN <<"?">> \o queryString ELSE <<>>)

getRoutes(page) == ListEndpoint("/api/v1/routes.json", page)
getRoute(id) == <<"/api/v1/routes/", ToStr(id), ".json">>
getTrips(page) == ListEndpoint("/api/v1/trips.json", page)
getTrip(id) == <<"/api/v1/trips/", ToStr(id), ".json">>
getCurrentUser == <<"/api/v1/users/current.json">>
getEvents(page) == ListEndpoint("/api/v1/events.json", page)
getEvent(id) == <<"/api/v1/events/", ToStr(id), ".json">>

\* params.append('since', since); if (assets) params.append('assets', assets)
getSync(since, assets) ==
    LET params == <<<<"since", ToStr(since)>>>> \o
                  (IF Truthy(assets) THEN <<<<"assets", ToStr(assets)>>>> ELSE <<>>)
    IN <<"/api/v1/sync.json", "?">> \o ParamsToString(params)

\* private getHeaders()
getHeaders(a) ==
    [ContentType |-> "application/json",
     xRwgpsApiKey |-> a.config.apiKey.s,
     xRwgpsAuthToken |-> a.config.authToken.s]

\* the fetch(url, {headers}) call of makeRequest
Request(a, endpoint) ==
    [method |-> "GET", url |-> <<a.baseUrl>> \o endpoint, headers |-> getHeaders(a)]

\* response.ok
Ok(status) == status >= 200 /\ status <= 299

(***************************************************************************)
(* Formatting (index.ts:127-609).  A formatter either returns its text or  *)
(* throws; a throw keeps the text built up to that point in `partial`.     *)
(* Payload fields hold the JSON type the upstream API documents for them,  *)
(* or null, or are absent; whole payloads and list items may be of any     *)
(* JSON type.                                                              *)
(***************************************************************************)
Ret(text) == [threw |-> FALSE, text |-> text]
Throw(error, partial) == [threw |-> TRUE, error |-> error, partial |-> partial]

When(cond, text) == IF cond THEN text ELSE <<>>

IsNullish(v) == v.t \in {"null", "undefined"}

\* v.length
Length(v) ==
    CASE v.t = "array" -> Num(Len(v.a))
      [] v.t = "string" -> Num(Len(v.s))
      [] OTHER -> Undefined

\* Array.prototype.join
RECURSIVE Join(_, _)
Join(parts, sep) ==
    IF parts = <<>> THEN <<>>
    ELSE IF Len(parts) = 1 THEN <<parts[1]>>
    ELSE <<parts[1], sep>> \o Join(Tail(parts), sep)

TwoDigits(n) == IF n < 10 THEN "0" \o ToString(n) ELSE ToString(n)

\* Number.prototype.toFixed(d) of a model number, d in {0, 1, 6}
ToFixed0(v) == IF v.half THEN ToString(v.n + 1) ELSE ToString(v.n)
ToFixed1(v) == ToString(v.n) \o (IF v.half THEN ".5" ELSE ".0")
ToFixed6(v) == ToString(v.n) \o (IF v.half THEN ".500000" ELSE ".000000")

\* (meters / 1000).toFixed(2) for whole meters: the nearest hundredth of a
\* kilometre (payload distances are not odd multiples of 5 m, where the
\* binary value of meters / 1000 decides the rounding)
KmToFixed2(v) ==
    LET h == (v.n + 5) \div 10
    IN ToString(h \div 100) \o "." \o TwoDigits(h % 100)

\* function formatDistance(meters)
formatDistance(meters) ==
    IF ~Truthy(meters) THEN "Unknown" ELSE KmToFixed2(meters) \o " km"

\* function formatElevation(meters)
formatElevation(meters) ==
    IF ~Truthy(meters) THEN "Unknown" ELSE ToFixed0(meters) \o " m"

\* Math.round in place of Math.floor for the minutes
formatDurationRounded(seconds) ==
    IF ~Truthy(seconds) THEN "Unknown"
    ELSE LET hours == seconds.n \div 3600
             minutes == ((seconds.n % 3600) + 30) \div 60
         IN ToString(hours) \o "h " \o ToString(minutes) \o "m"

\* function formatDuration(seconds)
formatDuration(seconds) ==
    IF ~Truthy(seconds) THEN "Unknown"
    ELSE LET hours == seconds.n \div 3600
             minutes == (seconds.n % 3600) \div 60
         IN ToString(hours) \o "h " \o ToString(minutes) \o "m"

\* the strings new Date() parses
ValidDates == {"2024-01-01T00:00:00Z", "2024-03-05T10:30:00Z", "2024-06-01T08:00:00Z"}

\* new Date(dateString).toLocaleString(): it does not throw on a string
\* that is no date, it returns "Invalid Date"
ToLocaleString(s) ==
    IF s \in ValidDates THEN "locale(" \o s \o ")" ELSE "Invalid Date"

\* function formatDate(dateString)
formatDate(dateString) ==
    IF ~Truthy(dateString) THEN "Unknown" ELSE ToLocaleString(ToStr(dateString))

\* items.forEach(...): the entries are appended in order, up to the first
\* entry whose rendering throws
RECURSIVE ForEachOut(_, _)
ForEachOut(acc, entries) ==
    IF entries = <<>> THEN Ret(acc)
    ELSE IF entries[1].threw
         THEN Throw(entries[1].error, acc \o entries[1].partial)
         ELSE ForEachOut(acc \o entries[1].text, Tail(entries))

\* the TypeError of items.forEach(...) on a value that has no forEach
NotIterable(what) == TypeError(what \o ".forEach is not a function")

\* the TypeError of item.field on a null / undefined item
NullRead(field) == TypeError("Cannot read properties of null (reading '" \o field \o "')")

\* description.length > 100 ? description.substring(0, 97) + '...' : description
Truncate100(s) == IF Len(s) > 100 THEN SubSeq(s, 1, 97) \o "..." ELSE s

\* the characteristics array of a list entry, joined with ' | '
Characteristics(parts) ==
    LET present == SelectSeq(parts, LAMBDA p : p # "")
    IN present

\* an entry without its `${index + 1}. ` prefix
RouteListEntryUnnumbered(route, index) ==
    Ret(<<"- **", ToStr(OrElse(GetOpt(route, "name"), Str("Unnamed Route"))), "**\n\n">>)

\* one entry of formatRoutesList (index.ts:144-191)
RouteListEntry(route, index) ==
    IF IsNullish(route) THEN Throw(NullRead("name"), <<>>)
    ELSE
    LET f(k) == Get(route, k)
        characteristics == Characteristics(<<
            IF Truthy(f("track_type")) THEN "Type: " \o ToStr(f("track_type")) ELSE "",
            IF Truthy(f("terrain")) THEN "Terrain: " \o ToStr(f("terrain")) ELSE "",
            IF Truthy(f("difficulty")) THEN "Difficulty: " \o ToStr(f("difficulty")) ELSE "",
            IF Truthy(f("surface")) THEN "Surface: " \o ToStr(f("surface")) ELSE "",
            IF Truthy(f("unpaved_pct")) THEN ToStr(f("unpaved_pct")) \o "% unpaved" ELSE "">>)
    IN Ret(
        <<ToString(index), ". **", ToStr(OrElse(f("name"), Str("Unnamed Route"))),
          "** (ID: ", ToStr(f("id")), ")\n">>
        \o <<"   Distance: ", formatDistance(f("distance"))>>
        \o When(Truthy(f("elevation_gain")),
                <<" | Elevation: +", formatElevation(f("elevation_gain"))>>
                \o When(Truthy(f("elevation_loss")),
                        <<"/-", formatElevation(f("elevation_loss"))>>))
        \o <<"\n">>
        \o <<"   Location: ", ToStr(OrElse(f("locality"), Str("Unknown"))), ", ",
             ToStr(OrElse(f("administrative_area"), Str("Unknown")))>>
        \o When(Truthy(f("country_code")), <<", ", ToStr(f("country_code"))>>)
        \o <<"\n">>
        \o When(characteristics # <<>>,
                <<"   ">> \o Join(characteristics, " | ") \o <<"\n">>)
        \o When(Truthy(f("visibility")), <<"   Visibility: ", ToStr(f("visibility"))>>)
        \o When(Truthy(f("description")),
                <<" | Description: ", Truncate100(ToStr(f("description")))>>)
        \o When(Truthy(f("visibility")) \/ Truthy(f("description")), <<"\n">>)
        \o <<"   Created: ", formatDate(f("created_at")), " | Updated: ",
             formatDate(f("updated_at")), "\n\n">>)

\* `Start: ..` / `End: ..` / `Bounds: ..` of the two detail formatters
\* (index.ts:231-238, 438-445)
Coordinates(entity) ==
    LET f(k) == Get(entity, k)
    IN
    When(Truthy(f("first_lat")) /\ Truthy(f("first_lng")),
         <<"\n**Coordinates:**\n">>
         \o <<"Start: ", ToFixed6(f("first_lat")), ", ", ToFixed6(f("first_lng")), "\n">>
         \o <<"End: ",
              IF IsNullish(f("last_lat")) THEN "Unknown" ELSE ToFixed6(f("last_lat")),
              ", ",
              IF IsNullish(f("last_lng")) THEN "Unknown" ELSE ToFixed6(f("last_lng")),
              "\n">>
         \o When(Truthy(f("sw_lat")) /\ Truthy(f("sw_lng"))
                    /\ Truthy(f("ne_lat")) /\ Truthy(f("ne_lng")),
                 <<"Bounds: SW(", ToFixed6(f("sw_lat")), ", ", ToFixed6(f("sw_lng")),
                   ") to NE(", ToFixed6(f("ne_lat")), ", ", ToFixed6(f("ne_lng")), ")\n">>))

\* `${a || 'Unknown'}, ${b || 'Unknown'}, ${c || 'Unknown'}\n`
LocationLine(entity) ==
    LET f(k) == Get(entity, k)
    IN
    <<"\n**Location:**\n",
      ToStr(OrElse(f("locality"), Str("Unknown"))), ", ",
      ToStr(OrElse(f("administrative_area"), Str("Unknown"))), ", ",
      ToStr(OrElse(f("country_code"), Str("Unknown"))), "\n">>

\* v?.toFixed(6) inside a template literal
OptFixed6(v) == IF IsNullish(v) THEN "undefined" ELSE ToFixed6(v)

\* x?.length as a condition
HasLength(v) == ~IsNullish(v) /\ Truthy(Length(v))

\* one course point of formatRouteDetails (index.ts:254-263)
CoursePointEntry(point, index) ==
    IF IsNullish(point) THEN Throw(NullRead("t"), <<>>)
    ELSE
    LET f(k) == Get(point, k)
    IN Ret(
        <<ToString(index), ". ", ToStr(OrElse(f("t"), Str("Unknown"))), " at ",
          formatDistance(f("d")), "\n">>
        \o When(Truthy(f("n")), <<"   Direction: ", ToStr(f("n")), "\n">>)
        \o <<"   Location: ", OptFixed6(f("y")), ", ", OptFixed6(f("x")), "\n">>
        \o When(Truthy(f("_e")), <<"   (User edited)\n">>))

\* one point of interest of formatRouteDetails (index.ts:268-277)
PoiEntry(poi, index) ==
    IF IsNullish(poi) THEN Throw(NullRead("name"), <<>>)
    ELSE
    LET f(k) == Get(poi, k)
    IN Ret(
        <<ToString(index), ". **", ToStr(OrElse(f("name"), Str("Unnamed POI"))), "** (",
          ToStr(OrElse(OrElse(f("type_name"), f("type")), Str("Unknown type"))), ")\n">>
        \o When(Truthy(f("description")), <<"   Description: ", ToStr(f("description")), "\n">>)
        \o <<"   Location: ", OptFixed6(f("lat")), ", ", OptFixed6(f("lng")), "\n">>
        \o When(Truthy(f("url")), <<"   URL: ", ToStr(f("url")), "\n">>))

\* one associated route of formatEventDetails (index.ts:542-548)
EventRouteEntry(route, index) ==
    IF IsNullish(route) THEN Throw(NullRead("name"), <<>>)
    ELSE
    LET f(k) == Get(route, k)
    IN Ret(
        <<ToString(index), ". ", ToStr(OrElse(f("name"), Str("Unnamed Route"))),
          " (ID: ", ToStr(f("id")), ")\n">>
        \o <<"   Distance: ", formatDistance(f("distance")), "\n">>
        \o When(Truthy(f("locality")), <<"   Location: ", ToStr(f("locality")), "\n">>))

\* the forEach body of a nested collection
SectionEntry(what, item, index) ==
    CASE what = "route.course_points" -> CoursePointEntry(item, index)
      [] what = "route.points_of_interest" -> PoiEntry(item, index)
      [] what = "event.routes" -> EventRouteEntry(item, index)

\* a section that prints its title and count, and no entries
SectionTitleOnly(acc, list, title, what) ==
    IF ~HasLength(list) THEN Ret(acc)
    ELSE Ret(acc \o <<title, ToStr(Length(list)), "):**\n">>)

\* `if (x?.length) { output += title; x.forEach(entry) }`
Section(acc, list, title, what) ==
    IF ~HasLength(list) THEN Ret(acc)
    ELSE LET head == acc \o <<title, ToStr(Length(list)), "):**\n">>
         IN IF list.t # "array" THEN Throw(NotIterable(what), head)
            ELSE ForEachOut(head, [i \in 1..Len(list.a) |-> SectionEntry(what, list.a[i], i)])

\* function formatRouteDetails(response)
formatRouteDetails(response) ==
    IF IsNullish(response) THEN Throw(NullRead("route"), <<>>)
    ELSE
    LET route == Get(response, "route")
        f(k) == Get(route, k)
    IN
    IF ~Truthy(route) THEN Ret(<<"Route not found.">>)
    ELSE
    LET top ==
            <<"**", ToStr(OrElse(f("name"), Str("Unnamed Route"))), "**\n">>
            \o <<"ID: ", ToStr(f("id")), "\n">>
            \o <<"Description: ", ToStr(OrElse(f("description"), Str("No description"))), "\n">>
            \o When(Truthy(f("visibility")), <<"Visibility: ", ToStr(f("visibility")), "\n">>)
            \o <<"\n">>
            \o <<"**Route Details:**\n">>
            \o <<"Distance: ", formatDistance(f("distance")), "\n">>
            \o When(Truthy(f("elevation_gain")),
                    <<"Elevation Gain: ", formatElevation(f("elevation_gain")), "\n">>)
            \o When(Truthy(f("elevation_loss")),
                    <<"Elevation Loss: ", formatElevation(f("elevation_loss")), "\n">>)
            \o <<"Track Type: ", ToStr(OrElse(f("track_type"), Str("Unknown"))), "\n">>
            \o <<"Terrain: ", ToStr(OrElse(f("terrain"), Str("Unknown"))), "\n">>
            \o <<"Difficulty: ", ToStr(OrElse(f("difficulty"), Str("Unknown"))), "\n">>
            \o <<"Surface: ", ToStr(OrElse(f("surface"), Str("Unknown"))), "\n">>
            \o When(Truthy(f("unpaved_pct")),
                    <<"Unpaved Percentage: ", ToStr(f("unpaved_pct")), "%\n">>)
            \o Coordinates(route)
            \o LocationLine(route)
            \o <<"\n**Timestamps:**\n">>
            \o <<"Created: ", formatDate(f("created_at")), "\n">>
            \o <<"Updated: ", formatDate(f("updated_at")), "\n">>
            \o When(HasLength(f("track_points")),
                    <<"\n**Track Data:**\n", "Track points: ",
                      ToStr(Length(f("track_points"))), "\n">>)
        course == Section(top, f("course_points"), "\n**Course Points (",
                          "route.course_points")
    IN
    IF course.threw THEN course
    ELSE Section(course.text, f("points_of_interest"), "\n**Points of Interest (",
                 "route.points_of_interest")

\* one entry of formatTripsList (index.ts:297-334)
TripListEntry(trip, index) ==
    IF IsNullish(trip) THEN Throw(NullRead("name"), <<>>)
    ELSE
    LET f(k) == Get(trip, k)
        characteristics == Characteristics(<<
            IF Truthy(f("track_type")) THEN "Type: " \o ToStr(f("track_type")) ELSE "",
            IF Truthy(f("terrain")) THEN "Terrain: " \o ToStr(f("terrain")) ELSE "",
            IF Truthy(f("difficulty")) THEN "Difficulty: " \o ToStr(f("difficulty")) ELSE "">>)
    IN Ret(
        <<ToString(index), ". **", ToStr(OrElse(f("name"), Str("Unnamed Trip"))),
          "** (ID: ", ToStr(f("id")), ")\n">>
        \o <<"   Distance: ", formatDistance(f("distance"))>>
        \o When(Truthy(f("duration")),
                <<" | Moving Time: ", formatDuration(OrElse(f("moving_time"), Num(0)))>>)
        \o <<"\n">>
        \o When(Truthy(f("activity_type")),
                <<"   Activity: ", ToStr(f("activity_type"))>>
                \o When(Truthy(f("avg_speed")),
                        <<" | Avg Speed: ", ToFixed1(f("avg_speed")), " km/h">>)
                \o <<"\n">>)
        \o When(characteristics # <<>>,
                <<"   ">> \o Join(characteristics, " | ") \o <<"\n">>)
        \o <<"   Departed: ", formatDate(f("departed_at"))>>
        \o When(Truthy(f("created_at")), <<" | Created: ", formatDate(f("created_at"))>>)
        \o When(Truthy(f("updated_at")), <<" | Updated: ", formatDate(f("updated_at"))>>)
        \o <<"\n\n">>)

\* `Label - Avg: ${avg} unit` with its optional range (index.ts:405-429)
Metric(entity, label, avg, min, max, unit) ==
    LET f(k) == Get(entity, k)
    IN
    When(Truthy(f(avg)),
         <<label, ToStr(f(avg)), unit>>
         \o When(Truthy(f(min)) /\ Truthy(f(max)),
                 <<" (Range: ", ToStr(f(min)), "-", ToStr(f(max)), unit, ")">>)
         \o <<"\n">>)

\* function formatTripDetails(response)
formatTripDetails(response) ==
    IF IsNullish(response) THEN Throw(NullRead("trip"), <<>>)
    ELSE
    LET trip == Get(response, "trip")
        f(k) == Get(trip, k)
        characteristics == Characteristics(<<
            IF Truthy(f("track_type")) THEN "Type: " \o ToStr(f("track_type")) ELSE "",
            IF Truthy(f("terrain")) THEN "Terrain: " \o ToStr(f("terrain")) ELSE "",
            IF Truthy(f("difficulty")) THEN "Difficulty: " \o ToStr(f("difficulty")) ELSE "">>)
    IN
    IF ~Truthy(trip) THEN Ret(<<"Trip not found.">>)
    ELSE Ret(
        <<"**", ToStr(OrElse(f("name"), Str("Unnamed Trip"))), "**\n">>
        \o <<"ID: ", ToStr(f("id")), "\n">>
        \o When(Truthy(f("description")), <<"Description: ", ToStr(f("description")), "\n">>)
        \o When(Truthy(f("visibility")), <<"Visibility: ", ToStr(f("visibility")), "\n">>)
        \o <<"\n">>
        \o <<"**Trip Details:**\n">>
        \o <<"Activity Type: ", ToStr(OrElse(f("activity_type"), Str("Unknown"))), "\n">>
        \o When(Truthy(f("time_zone")), <<"Timezone: ", ToStr(f("time_zone")), "\n">>)
        \o <<"Departed: ", formatDate(f("departed_at")), "\n">>
        \o <<"Distance: ", formatDistance(f("distance")), "\n">>
        \o <<"Duration: ", formatDuration(OrElse(f("duration"), Num(0))), "\n">>
        \o <<"Moving Time: ", formatDuration(OrElse(f("moving_time"), Num(0))), "\n">>
        \o When(Truthy(f("is_stationary")), <<"Stationary Activity: Yes\n">>)
        \o When(characteristics # <<>>,
                <<"Characteristics: ">> \o Join(characteristics, " | ") \o <<"\n">>)
        \o <<"\n**Speed:**\n">>
        \o When(Truthy(f("avg_speed")), <<"Average: ", ToFixed1(f("avg_speed")), " km/h\n">>)
        \o When(Truthy(f("max_speed")), <<"Maximum: ", ToFixed1(f("max_speed")), " km/h\n">>)
        \o <<"\n**Elevation:**\n">>
        \o When(Truthy(f("elevation_gain")),
                <<"Gain: ", formatElevation(f("elevation_gain")), "\n">>)
        \o When(Truthy(f("elevation_loss")),
                <<"Loss: ", formatElevation(f("elevation_loss")), "\n">>)
        \o When(Truthy(f("avg_hr")) \/ Truthy(f("avg_watts")) \/ Truthy(f("avg_cad")),
                <<"\n**Performance Metrics:**\n">>
                \o Metric(trip, "Heart Rate - Avg: ", "avg_hr", "min_hr", "max_hr", " bpm")
                \o Metric(trip, "Power - Avg: ", "avg_watts", "min_watts", "max_watts", "W")
                \o Metric(trip, "Cadence - Avg: ", "avg_cad", "min_cad", "max_cad", " rpm"))
        \o When(Truthy(f("calories")),
                <<"\n**Energy:**\n", "Calories: ", ToStr(f("calories")), "\n">>)
        \o Coordinates(trip)
        \o LocationLine(trip)
        \o When(Truthy(f("fit_sport")) \/ Truthy(f("fit_sub_sport")),
                <<"\n**FIT Data:**\n">>
                \o When(Truthy(f("fit_sport")), <<"Sport ID: ", ToStr(f("fit_sport")), "\n">>)
                \o When(Truthy(f("fit_sub_sport")),
                        <<"Sub-sport ID: ", ToStr(f("fit_sub_sport")), "\n">>))
        \o <<"\n**Timestamps:**\n">>
        \o <<"Created: ", formatDate(f("created_at")), "\n">>
        \o <<"Updated: ", formatDate(f("updated_at")), "\n">>
        \o When(HasLength(f("track_points")),
                <<"\n**Track Data:**\n", "Track points: ",
                  ToStr(Length(f("track_points"))), "\n">>))

\* function formatUserDetails(response)
formatUserDetails(response) ==
    IF IsNullish(response) THEN Throw(NullRead("user"), <<>>)
    ELSE
    LET user == Get(response, "user")
        f(k) == Get(user, k)
    IN
    IF ~Truthy(user) THEN Ret(<<"User information not found.">>)
    ELSE Ret(
        <<"**User Profile**\n">>
        \o <<"Name: ", ToStr(OrElse(f("name"), Str("Not provided"))), "\n">>
        \o <<"Email: ", ToStr(OrElse(f("email"), Str("Not provided"))), "\n">>
        \o <<"User ID: ", ToStr(f("id")), "\n">>
        \o <<"Member since: ", formatDate(f("created_at")), "\n">>
        \o <<"Last updated: ", formatDate(f("updated_at")), "\n">>)

\* one entry of formatEventsList (index.ts:503-510)
EventListEntry(event, index) ==
    IF IsNullish(event) THEN Throw(NullRead("name"), <<>>)
    ELSE
    LET f(k) == Get(event, k)
    IN Ret(
        <<ToString(index), ". **", ToStr(OrElse(f("name"), Str("Unnamed Event"))),
          "** (ID: ", ToStr(f("id")), ")\n">>
        \o <<"   Starts: ", formatDate(f("starts_at")), "\n">>
        \o When(Truthy(f("ends_at")), <<"   Ends: ", formatDate(f("ends_at")), "\n">>)
        \o <<"   Created: ", formatDate(f("created_at")), "\n\n">>)

\* the forEach body of the list formatter of a resource
ListEntry(noun, item, index) ==
    CASE noun = "route" -> RouteListEntry(item, index)
      [] noun = "trip" -> TripListEntry(item, index)
      [] noun = "event" -> EventListEntry(item, index)

\* a list formatter that prints the footer whenever there is pagination
\* metadata
FormatListHintOnMeta(response, key, noun) ==
    LET items == GetOpt(response, key)
        meta == GetOpt(GetOpt(response, "meta"), "pagination")
    IN
    IF ~Truthy(items) \/ Length(items) = Num(0)
    THEN Ret(<<"No " \o noun \o "s found.">>)
    ELSE IF items.t # "array" THEN Throw(NotIterable(key), <<>>)
    ELSE
    LET header ==
            <<"Found ", ToStr(Length(items)), " " \o noun \o "(s)">>
            \o When(Truthy(meta),
                    <<" (Page showing ", ToStr(Length(items)), " of ",
                      ToStr(Get(meta, "record_count")), " total)">>)
            \o <<":\n\n">>
        body == ForEachOut(header, [i \in 1..Len(items.a) |-> ListEntry(noun, items.a[i], i)])
    IN
    IF body.threw THEN body
    ELSE Ret(body.text \o When(Truthy(meta),
                               <<"Use the next page parameter to get more results.">>))

\* the header, entries and footer shared by the three list formatters
\* (index.ts:127-139, 193-197; 283-295, 336-340; 489-501, 512-516)
FormatList(response, key, noun) ==
    LET items == GetOpt(response, key)
    IN
    IF ~Truthy(items) \/ Length(items) = Num(0)
    THEN Ret(<<"No " \o noun \o "s found.">>)
    ELSE
    LET meta == GetOpt(Get(response, "meta"), "pagination")
        header ==
            <<"Found ", ToStr(Length(items)), " " \o noun \o "(s)">>
            \o When(Truthy(meta),
                    <<" (Page showing ", ToStr(Length(items)), " of ",
                      ToStr(Get(meta, "record_count")), " total)">>)
            \o <<":\n\n">>
    IN
    IF items.t # "array" THEN Throw(NotIterable(key), header)
    ELSE
    LET body == ForEachOut(header, [i \in 1..Len(items.a) |-> ListEntry(noun, items.a[i], i)])
    IN
    IF body.threw THEN body
    ELSE Ret(body.text \o When(Truthy(GetOpt(meta, "next_page_url")),
                               <<"Use the next page parameter to get more results.">>))

\* function formatRoutesList(response)
formatRoutesList(response) == FormatList(response, "routes", "route")

\* function formatTripsList(response)
formatTripsList(response) == FormatList(response, "trips", "trip")

\* function formatEventsList(response)
formatEventsList(response) == FormatList(response, "events", "event")

\* function formatEventDetails(response)
formatEventDetails(response) ==
    IF IsNullish(response) THEN Throw(NullRead("event"), <<>>)
    ELSE
    LET event == Get(response, "event")
        f(k) == Get(event, k)
    IN
    IF ~Truthy(event) THEN Ret(<<"Event not found.">>)
    ELSE Section(
        <<"**", ToStr(OrElse(f("name"), Str("Unnamed Event"))), "**\n">>
        \o <<"ID: ", ToStr(f("id")), "\n">>
        \o When(Truthy(f("description")), <<"Description: ", ToStr(f("description")), "\n">>)
        \o <<"\n">>
        \o <<"**Event Details:**\n">>
        \o <<"Starts: ", formatDate(f("starts_at")), "\n">>
        \o When(Truthy(f("ends_at")), <<"Ends: ", formatDate(f("ends_at")), "\n">>)
        \o <<"Created: ", formatDate(f("created_at")), "\n">>
        \o <<"Updated: ", formatDate(f("updated_at")), "\n">>,
        f("routes"), "\n**Associated Routes (", "event.routes")

\* String.prototype.toUpperCase on the action names of the sync API
ToUpperCase(s) ==
    CASE s = "create" -> "CREATE"
      [] s = "update" -> "UPDATE"
      [] s = "delete" -> "DELETE"
      [] s = "Create" -> "CREATE"
      [] OTHER -> s

\* an entry that prints item.action as it is
SyncItemEntryAsIs(item, index) ==
    Ret(<<ToString(index), ". **", ToStr(GetOpt(item, "action")), "** ",
          ToStr(GetOpt(item, "item_type")), " (ID: ", ToStr(GetOpt(item, "item_id")), ")\n",
          "   Date: ", formatDate(GetOpt(item, "datetime")), "\n",
          "   Owner: User ", ToStr(GetOpt(item, "item_user_id")), "\n", "\n">>)

\* one item of formatSyncResponse (index.ts:564-572)
SyncItemEntry(item, index) ==
    IF IsNullish(item) THEN Throw(NullRead("action"), <<>>)
    ELSE
    LET f(k) == Get(item, k)
    IN
    IF IsNullish(f("action")) THEN Throw(NullRead("toUpperCase"), <<>>)
    ELSE IF f("action").t # "string"
    THEN Throw(TypeError("item.action.toUpperCase is not a function"), <<>>)
    ELSE Ret(
        <<ToString(index), ". **", ToUpperCase(f("action").s), "** ",
          ToStr(f("item_type")), " (ID: ", ToStr(f("item_id")), ")\n">>
        \o <<"   Date: ", formatDate(f("datetime")), "\n">>
        \o <<"   Owner: User ", ToStr(f("item_user_id")), "\n">>
        \o When(Truthy(f("collection")),
                <<"   Collection: ", ToStr(Get(f("collection"), "name")), "\n">>)
        \o <<"\n">>)

\* function formatSyncResponse(response)
formatSyncResponse(response) ==
    LET items == GetOpt(response, "items")
    IN
    IF ~Truthy(items) \/ Length(items) = Num(0)
    THEN Ret(<<"No changes found since the specified date.">>)
    ELSE
    LET meta == Get(response, "meta")
        header == <<"Found ", ToStr(Length(items)), " change(s) since sync:\n\n">>
    IN
    IF items.t # "array" THEN Throw(NotIterable("items"), header)
    ELSE
    LET body == ForEachOut(header, [i \in 1..Len(items.a) |-> SyncItemEntry(items.a[i], i)])
    IN
    IF body.threw THEN body
    ELSE Ret(body.text \o When(Truthy(GetOpt(meta, "next_sync_url")),
                               <<"\n**Next Sync:**\n",
                                 "Use datetime: ", ToStr(Get(meta, "rwgps_datetime")), "\n",
                                 "Next sync URL available\n">>))

(***************************************************************************)
(* Upstream responses.  A body is raw text; JsonParse is response.json()   *)
(* on the bodies the model's upstream can send.                            *)
(***************************************************************************)
StatusLines ==
    {[status |-> 200, statusText |-> "OK"],
     [status |-> 401, statusText |-> "Unauthorized"],
     [status |-> 500, statusText |-> "Internal Server Error"]}

ErrorBodies == {"{\"error\":\"invalid token\"}", ""}

RoutesBody == "{\"routes\":[{Loop},{}],\"meta\":{\"pagination\":{\"record_count\":7,\"next_page_url\":..}}}"
RouteBody == "{\"route\":{Loop,\"course_points\":[..],\"points_of_interest\":[..]}}"
TripsBody == "{\"trips\":[{Ride}],\"meta\":{\"pagination\":{\"record_count\":1}}}"
TripBody == "{\"trip\":{Ride}}"
UserBody == "{\"user\":{Ann}}"
EventsBody == "{\"events\":[{Gran Fondo}]}"
EventBody == "{\"event\":{Gran Fondo,\"routes\":[{Loop}]}}"
SyncBody == "{\"items\":[{create route},{delete trip}],\"meta\":{\"next_sync_url\":..}}"
SyncNoActionBody == "{\"items\":[{create route},{\"item_type\":\"trip\"}]}"

LoopRoute ==
    [id |-> Num(11), name |-> Str("Loop"), distance |-> Num(42190),
     elevation_gain |-> Num(350), elevation_loss |-> Num(0),
     locality |-> Str("Portland"), country_code |-> Str("US"),
     first_lat |-> Num(45), first_lng |-> Num(-122),
     created_at |-> Str("2024-01-01T00:00:00Z"),
     updated_at |-> Str("2024-03-05T10:30:00Z")]

Ride ==
    [id |-> Num(21), name |-> Str("Ride"), distance |-> Num(10000),
     duration |-> Num(3725), moving_time |-> Num(3600),
     activity_type |-> Str("cycling"), avg_speed |-> NumHalf(20),
     departed_at |-> Str("2024-06-01T08:00:00Z"),
     created_at |-> Str("2024-06-01T08:00:00Z")]

\* JSON.parse(body): the decoded value, or a SyntaxError
JsonParse(body) ==
    CASE body = "null" -> [ok |-> TRUE, value |-> Null]
      [] body = "{}" -> [ok |-> TRUE, value |-> EmptyObj]
      [] body = RoutesBody ->
            [ok |-> TRUE, value |-> Obj(
                [routes |-> Arr(<<Obj(LoopRoute), EmptyObj>>),
                 meta |-> Obj([pagination |-> Obj(
                    [record_count |-> Num(7),
                     next_page_url |-> Str("/api/v1/routes.json?page=2")])])])]
      [] body = RouteBody ->
            [ok |-> TRUE, value |-> Obj(
                [route |-> Obj(LoopRoute @@
                    [course_points |-> Arr(<<
                        Obj([t |-> Str("Left"), d |-> Num(1200), n |-> Str("Turn left"),
                             x |-> Num(-122), y |-> Num(45)]),
                        Obj([d |-> Num(0)])>>),
                     points_of_interest |-> Arr(<<
                        Obj([name |-> Str("Cafe"), type_name |-> Str("Food"),
                             lat |-> Num(45), lng |-> Num(-122)])>>)])])]
      [] body = TripsBody ->
            [ok |-> TRUE, value |-> Obj(
                [trips |-> Arr(<<Obj(Ride)>>),
                 meta |-> Obj([pagination |-> Obj([record_count |-> Num(1)])])])]
      [] body = TripBody -> [ok |-> TRUE, value |-> Obj([trip |-> Obj(Ride)])]
      [] body = UserBody ->
            [ok |-> TRUE, value |-> Obj(
                [user |-> Obj([id |-> Num(5), name |-> Str("Ann"),
                               created_at |-> Str("2024-01-01T00:00:00Z")])])]
      [] body = EventsBody ->
            [ok |-> TRUE, value |-> Obj(
                [events |-> Arr(<<Obj([id |-> Num(31), name |-> Str("Gran Fondo"),
                                       starts_at |-> Str("2024-06-01T08:00:00Z")])>>)])]
      [] body = EventBody ->
            [ok |-> TRUE, value |-> Obj(
                [event |-> Obj([id |-> Num(31), name |-> Str("Gran Fondo"),
                                starts_at |-> Str("2024-06-01T08:00:00Z"),
                                routes |-> Arr(<<Obj(LoopRoute)>>)])])]
      [] body = SyncBody ->
            [ok |-> TRUE, value |-> Obj(
                [items |-> Arr(<<
                    Obj([action |-> Str("create"), item_type |-> Str("route"),
                         item_id |-> Num(11), item_user_id |-> Num(5),
                         datetime |-> Str("2024-03-05T10:30:00Z")]),
                    Obj([action |-> Str("delete"), item_type |-> Str("trip"),
                         item_id |-> Num(21), item_user_id |-> Num(5),
                         datetime |-> Str("2024-06-01T08:00:00Z")])>>),
                 meta |-> Obj([next_sync_url |-> Str("/api/v1/sync.json?since=.."),
                               rwgps_datetime |-> Str("2024-06-01T08:00:00Z")])])]
      [] body = SyncNoActionBody ->
            [ok |-> TRUE, value |-> Obj(
                [items |-> Arr(<<
                    Obj([action |-> Str("create"), item_type |-> Str("route"),
                         item_id |-> Num(11), item_user_id |-> Num(5),
                         datetime |-> Str("2024-03-05T10:30:00Z")]),
                    Obj([item_type |-> Str("trip"), item_id |-> Num(21)])>>)])]
      [] OTHER -> [ok |-> FALSE, error |-> JsonSyntaxError(body)]

\* the bodies the upstream sends with a 2xx status on a tool's endpoint
OkBodies(tool) ==
    {"null", "{}", "<html>"} \cup
    CASE tool = "get_routes" -> {RoutesBody}
      [] tool = "get_route_details" -> {RouteBody}
      [] tool = "get_trips" -> {TripsBody}
      [] tool = "get_trip_details" -> {TripBody}
      [] tool = "get_current_user" -> {UserBody}
      [] tool = "get_events" -> {EventsBody}
      [] tool = "get_event_details" -> {EventBody}
      [] tool = "sync_user_data" -> {SyncBody, SyncNoActionBody}

(***************************************************************************)
(* Tool facade (index.ts:611-831)                                          *)
(***************************************************************************)
\* z.number().min(1), z.number().min(1).optional(), z.string(), z.string().optional()
IdSchema == [type |-> "number", min |-> <<1>>, optional |-> FALSE]
PageSchema == [type |-> "number", min |-> <<1>>, optional |-> TRUE]
SinceSchema == [type |-> "string", min |-> <<>>, optional |-> FALSE]
AssetsSchema == [type |-> "string", min |-> <<>>, optional |-> TRUE]

\* the inputSchema of each registerTool call
InputSchema(tool) ==
    CASE tool \in {"get_routes", "get_trips", "get_events"} -> [page |-> PageSchema]
      [] tool \in {"get_route_details", "get_trip_details", "get_event_details"} ->
            [id |-> IdSchema]
      [] tool = "get_current_user" -> <<>>
      [] tool = "sync_user_data" -> [since |-> SinceSchema, assets |-> AssetsSchema]

\* a schema without its .min(1)
FieldOkNoMin(schema, v) ==
    IF v.t = "undefined" THEN schema.optional ELSE v.t = schema.type

\* one field against its zod schema
FieldOk(schema, v) ==
    IF v.t = "undefined" THEN schema.optional
    ELSE /\ v.t = schema.type
         /\ \A m \in Range(schema.min) : v.n >= m

\* the arguments object against the tool's inputSchema
Validate(tool, args) ==
    \A k \in DOMAIN InputSchema(tool) : FieldOk(InputSchema(tool)[k], Get(args, k))

\* a facade whose handlers all call api.getRoutes()
DelegateToRoutes(tool, args) == getRoutes(Undefined)

\* the client call of each handler: the endpoint it requests
Delegate(tool, args) ==
    CASE tool = "get_routes" -> getRoutes(Get(args, "page"))
      [] tool = "get_route_details" -> getRoute(Get(args, "id"))
      [] tool = "get_trips" -> getTrips(Get(args, "page"))
      [] tool = "get_trip_details" -> getTrip(Get(args, "id"))
      [] tool = "get_current_user" -> getCurrentUser
      [] tool = "get_events" -> getEvents(Get(args, "page"))
      [] tool = "get_event_details" -> getEvent(Get(args, "id"))
      [] tool = "sync_user_data" -> getSync(Get(args, "since"), Get(args, "assets"))

\* the formatter call of each handler
Render(tool, response) ==
    CASE tool = "get_routes" -> formatRoutesList(response)
      [] tool = "get_route_details" -> formatRouteDetails(response)
      [] tool = "get_trips" -> formatTripsList(response)
      [] tool = "get_trip_details" -> formatTripDetails(response)
      [] tool = "get_current_user" -> formatUserDetails(response)
      [] tool = "get_events" -> formatEventsList(response)
      [] tool = "get_event_details" -> formatEventDetails(response)
      [] tool = "sync_user_data" -> formatSyncResponse(response)

\* return { content: [{ type: "text", text }] }
Success(text) == [content |-> <<[type |-> "text", text |-> text]>>]

\* a handler without its try/catch: the error leaves the handler
HandlerRethrow(error) == [escaped |-> error]

\* a catch block that forgets isError: true
HandlerCatchNoFlag(error) ==
    [content |-> <<[type |-> "text", text |-> formatError(error)]>>]

\* catch (error) { return { content: [{ type: "text", text: formatError(error) }], isError: true } }
HandlerCatch(error) ==
    [content |-> <<[type |-> "text", text |-> formatError(error)]>>, isError |-> TRUE]

\* a handler that returns whatever report text was built before the
\* formatter threw, followed by the error message
HandlerReturnPartial(tool, response) ==
    LET r == Render(tool, response)
    IN IF r.threw
       THEN [content |-> <<[type |-> "text",
                            text |-> r.partial \o formatError(r.error)]>>,
             isError |-> TRUE]
       ELSE Success(r.text)

\* the try block after the client call has returned its decoded response
HandlerReturn(tool, response) ==
    LET r == Render(tool, response)
    IN IF r.threw THEN HandlerCatch(r.error) ELSE Success(r.text)

\* the reply the MCP server gives, without entering the handler, to a call
\* whose arguments fail the tool's inputSchema
InvalidParams(tool) ==
    [rpcError |-> "InvalidParams", message |-> <<"Invalid arguments for tool ", tool>>]

\* the arguments a host may send
PageValues == {Undefined, Num(1), Num(2), NumHalf(1), Num(0), Str("1")}
IdValues == {Undefined, Num(1), NumHalf(1), Num(0), Num(-1), Str("1")}
SinceValues == {Undefined, Str("2024-01-01T00:00:00Z"), Num(1)}
AssetsValues == {Undefined, Str("routes"), Str("routes,trips"), Str(""), Num(1)}

\* an arguments object holding the fields that are not undefined
Args(fields) ==
    Obj([k \in {x \in DOMAIN fields : fields[x].t # "undefined"} |-> fields[k]])

ArgsFor(tool) ==
    CASE tool \in {"get_routes", "get_trips", "get_events"} ->
            {Args([page |-> p]) : p \in PageValues}
      [] tool \in {"get_route_details", "get_trip_details", "get_event_details"} ->
            {Args([id |-> i]) : i \in IdValues}
      [] tool = "get_current_user" -> {EmptyObj}
      [] tool = "sync_user_data" ->
            {Args([since |-> s, assets |-> a]) : s \in SinceValues, a \in AssetsValues}

(***************************************************************************)
(* Tool invocations.  A slot holds one invocation from the tools/call      *)
(* request to the reply; `reached`, `fetches`, `response`, `body`,         *)
(* `decoded`, `thrown` and `thrownBy` record what happened to it.          *)
(***************************************************************************)
NoResponse == [status |-> 0, statusText |-> ""]
NoBody == "<no body>"
NoError == [name |-> "none"]
NoRequest == [method |-> "none"]
NoResult == [pending |-> TRUE]

IdleCall ==
    [pc |-> "idle", tool |-> "", args |-> EmptyObj, reached |-> FALSE,
     fetches |-> 0, request |-> NoRequest, response |-> NoResponse,
     body |-> NoBody, decoded |-> FALSE, thrown |-> NoError, thrownBy |-> "none",
     result |-> NoResult]

\* the handler ends: its result is what the server will send back
Finish(call, error, by, result) ==
    [call EXCEPT !.pc = "done", !.thrown = error, !.thrownBy = by,
                 !.result = result]

\* tools/call with arguments that fail the inputSchema: the server replies
\* without entering the handler
RejectCall(c, tool, args) ==
    /\ pc = "serving"
    /\ calls[c].pc = "idle"
    /\ invoked < MaxInvocations
    /\ tool \in tools
    /\ ~Validate(tool, args)
    /\ invoked' = invoked + 1
    /\ calls' = [calls EXCEPT ![c] =
                    [IdleCall EXCEPT !.pc = "done", !.tool = tool, !.args = args,
                                     !.thrownBy = "validation",
                                     !.result = InvalidParams(tool)]]
    /\ UNCHANGED <<fmt, env, pc, config, api, tools, exitCode, stderr, stdout,
                   handlerCount, httpCount>>

\* tools/call with valid arguments: the handler runs up to its first
\* await, which is the fetch() of makeRequest
InvokeHandler(c, tool, args) ==
    /\ pc = "serving"
    /\ calls[c].pc = "idle"
    /\ invoked < MaxInvocations
    /\ tool \in tools
    /\ Validate(tool, args)
    /\ invoked' = invoked + 1
    /\ handlerCount' = handlerCount + 1
    /\ httpCount' = httpCount + 1
    /\ calls' = [calls EXCEPT ![c] =
                    [IdleCall EXCEPT !.pc = "fetch", !.tool = tool, !.args = args,
                                     !.reached = TRUE, !.fetches = 1,
                                     !.request = Request(api, Delegate(tool, args))]]
    /\ UNCHANGED <<fmt, env, pc, config, api, tools, exitCode, stderr, stdout>>

\* a makeRequest that tries a second fetch() after the first one rejected
OnFetchRejectRetry(call) ==
    IF call.fetches < 2 THEN [call EXCEPT !.fetches = @ + 1]
    ELSE Finish(call, FetchFailed, "client", HandlerCatch(FetchFailed))

\* makeRequest when fetch() rejects: the rejection propagates to the
\* handler's catch; there is no second attempt
OnFetchReject(call) ==
    Finish(call, FetchFailed, "client", HandlerCatch(FetchFailed))

\* await fetch(url, ...) rejects: no response arrived
FetchReject(c) ==
    /\ calls[c].pc = "fetch"
    /\ calls' = [calls EXCEPT ![c] = OnFetchReject(@)]
    /\ httpCount' = httpCount + (calls'[c].fetches - calls[c].fetches)
    /\ UNCHANGED <<fmt, env, pc, config, api, tools, exitCode, stderr, stdout,
                   invoked, handlerCount>>

\* a client that keeps the last response in a field of the shared api
\* object: every invocation waiting on its fetch() receives it
FetchResolveShared(c, line) ==
    /\ calls[c].pc = "fetch"
    /\ calls' = [d \in Slots |->
                    IF calls[d].pc = "fetch"
                    THEN [calls[d] EXCEPT !.pc = "body", !.response = line]
                    ELSE calls[d]]
    /\ UNCHANGED <<fmt, env, pc, config, api, tools, exitCode, stderr, stdout,
                   invoked, handlerCount, httpCount>>

\* await fetch(url, ...) resolves with the status line and headers
FetchResolve(c, line) ==
    /\ calls[c].pc = "fetch"
    /\ calls' = [calls EXCEPT ![c] = [@ EXCEPT !.pc = "body", !.response = line]]
    /\ UNCHANGED <<fmt, env, pc, config, api, tools, exitCode, stderr, stdout,
                   invoked, handlerCount, httpCount>>

\* await response.text() / await response.json() rejects: the connection
\* broke while the body was read
BodyFail(c) ==
    /\ calls[c].pc = "body"
    /\ calls' = [calls EXCEPT ![c] =
                    Finish(@, Terminated, "client", HandlerCatch(Terminated))]
    /\ UNCHANGED <<fmt, env, pc, config, api, tools, exitCode, stderr, stdout,
                   invoked, handlerCount, httpCount>>

\* an error built without reading the response: no reason phrase, no body
ApiErrorOfNoBody(response, errorText) ==
    RideWithGPSApiError(<<"API request failed: ", ToString(response.status)>>,
                        response.status, NoBody)

\* the error makeRequest throws for a non-2xx response (part_000:49-56)
ApiErrorOf(response, errorText) ==
    RideWithGPSApiError(
        <<"API request failed: ", ToString(response.status), " ", response.statusText>>,
        response.status, errorText)

\* if (!response.ok): await response.text() resolves, makeRequest throws
ReadErrorText(c, errorText) ==
    /\ calls[c].pc = "body"
    /\ ~Ok(calls[c].response.status)
    /\ LET error == ApiErrorOf(calls[c].response, errorText)
       IN calls' = [calls EXCEPT ![c] =
                        Finish([@ EXCEPT !.body = errorText], error, "client",
                               HandlerCatch(error))]
    /\ UNCHANGED <<fmt, env, pc, config, api, tools, exitCode, stderr, stdout,
                   invoked, handlerCount, httpCount>>

\* return await response.json(): the body arrives and is parsed; on
\* success the handler formats the decoded response
ReadJson(c, body) ==
    /\ calls[c].pc = "body"
    /\ Ok(calls[c].response.status)
    /\ LET parsed == JsonParse(body)
           call == [calls[c] EXCEPT !.body = body, !.decoded = TRUE]
       IN calls' = [calls EXCEPT ![c] =
            IF ~parsed.ok
            THEN Finish(call, parsed.error, "client", HandlerCatch(parsed.error))
            ELSE LET r == Render(call.tool, parsed.value)
                 IN IF r.threw
                    THEN Finish(call, r.error, "formatter",
                                HandlerReturn(call.tool, parsed.value))
                    ELSE Finish(call, NoError, "none",
                                HandlerReturn(call.tool, parsed.value))]
    /\ UNCHANGED <<fmt, env, pc, config, api, tools, exitCode, stderr, stdout,
                   invoked, handlerCount, httpCount>>

\* a server that holds a reply back while another invocation is in flight
RespondWhenAlone(c) ==
    /\ calls[c].pc = "done"
    /\ \A d \in Slots \ {c} : calls[d].pc \in {"idle", "done"}
    /\ stdout' = Append(stdout, [kind |-> "protocol"])
    /\ calls' = [calls EXCEPT ![c] = IdleCall]
    /\ UNCHANGED <<fmt, env, pc, config, api, tools, exitCode, stderr,
                   invoked, handlerCount, httpCount>>

\* the server writes the reply to the protocol stream
Respond(c) ==
    /\ calls[c].pc = "done"
    /\ stdout' = Append(stdout, [kind |-> "protocol"])
    /\ calls' = [calls EXCEPT ![c] = IdleCall]
    /\ UNCHANGED <<fmt, env, pc, config, api, tools, exitCode, stderr,
                   invoked, handlerCount, httpCount>>

(***************************************************************************)
(* The formatters on their own.  SpecFmt hands a formatter a decoded       *)
(* payload drawn from bounded sets, calls it, calls other formatters on    *)
(* other payloads, and calls it again on the same payload.                 *)
(***************************************************************************)
\* the sequences of at most n elements of S
SeqsUpTo(S, n) == UNION {[1..k -> S] : k \in 0..n}

\* an object without one of its fields, and with one of its fields set
Without(obj, k) == Obj([x \in DOMAIN obj.o \ {k} |-> obj.o[x]])
With(obj, k, v) == Obj([x \in DOMAIN obj.o \cup {k} |-> IF x = k THEN v ELSE obj.o[x]])

\* a route, a trip and an event with every field of their interfaces set
FullRoute ==
    Obj([id |-> Num(11), name |-> Str("Loop"), visibility |-> Str("public"),
         description |-> Str("Around the lake"),
         locality |-> Str("Portland"), administrative_area |-> Str("OR"),
         country_code |-> Str("US"),
         distance |-> Num(42190), elevation_gain |-> Num(350), elevation_loss |-> Num(340),
         first_lat |-> Num(45), first_lng |-> Num(-122),
         last_lat |-> Num(46), last_lng |-> Num(-121),
         sw_lat |-> Num(44), sw_lng |-> Num(-123), ne_lat |-> Num(47), ne_lng |-> Num(-120),
         track_type |-> Str("loop"), terrain |-> Str("rolling"),
         difficulty |-> Str("easy"), surface |-> Str("paved"), unpaved_pct |-> Num(10),
         created_at |-> Str("2024-01-01T00:00:00Z"),
         updated_at |-> Str("2024-03-05T10:30:00Z")])

FullTrip ==
    Obj([id |-> Num(21), name |-> Str("Ride"), visibility |-> Str("private"),
         description |-> Str("Morning ride"),
         locality |-> Str("Portland"), administrative_area |-> Str("OR"),
         country_code |-> Str("US"),
         distance |-> Num(10000), elevation_gain |-> Num(120), elevation_loss |-> Num(110),
         first_lat |-> Num(45), first_lng |-> Num(-122),
         last_lat |-> Num(46), last_lng |-> Num(-121),
         sw_lat |-> Num(44), sw_lng |-> Num(-123), ne_lat |-> Num(47), ne_lng |-> Num(-120),
         track_type |-> Str("loop"), terrain |-> Str("flat"), difficulty |-> Str("easy"),
         departed_at |-> Str("2024-06-01T08:00:00Z"), time_zone |-> Str("America/Los_Angeles"),
         activity_type |-> Str("cycling"), fit_sport |-> Num(2), fit_sub_sport |-> Num(7),
         is_stationary |-> Bool(FALSE),
         duration |-> Num(3725), moving_time |-> Num(3600),
         avg_speed |-> NumHalf(20), max_speed |-> Num(41),
         avg_cad |-> Num(85), min_cad |-> Num(60), max_cad |-> Num(110),
         avg_hr |-> Num(140), min_hr |-> Num(90), max_hr |-> Num(175),
         avg_watts |-> Num(200), min_watts |-> Num(50), max_watts |-> Num(600),
         calories |-> Num(800),
         created_at |-> Str("2024-06-01T08:00:00Z"),
         updated_at |-> Str("2024-06-01T08:00:00Z")])

FullEvent ==
    Obj([id |-> Num(31), name |-> Str("Gran Fondo"), description |-> Str("Yearly"),
         starts_at |-> Str("2024-06-01T08:00:00Z"), ends_at |-> Str("2024-06-01T08:00:00Z"),
         created_at |-> Str("2024-01-01T00:00:00Z"),
         updated_at |-> Str("2024-03-05T10:30:00Z")])

FullUser ==
    Obj([id |-> Num(5), name |-> Str("Ann"), email |-> Str("ann@example.org"),
         created_at |-> Str("2024-01-01T00:00:00Z"),
         updated_at |-> Str("2024-03-05T10:30:00Z")])

\* the optional number fields of BaseRouteTrip, RouteListItem and TripListItem
\* (distance is declared required, the formatters treat it as optional)
BaseNumberFields ==
    {"distance", "elevation_gain", "elevation_loss", "first_lat", "first_lng",
     "last_lat", "last_lng", "sw_lat", "sw_lng", "ne_lat", "ne_lng"}
RouteNumberFields == BaseNumberFields \cup {"unpaved_pct"}
TripNumberFields ==
    BaseNumberFields \cup
    {"fit_sport", "fit_sub_sport", "duration", "moving_time", "avg_speed", "max_speed",
     "avg_cad", "min_cad", "max_cad", "avg_hr", "min_hr", "max_hr",
     "avg_watts", "min_watts", "max_watts", "calories"}

\* the string fields the formatters print
RouteStringFields ==
    {"name", "description", "visibility", "locality", "administrative_area",
     "country_code", "track_type", "terrain", "difficulty", "surface",
     "created_at", "updated_at"}
TripStringFields ==
    {"name", "description", "visibility", "locality", "administrative_area",
     "country_code", "track_type", "terrain", "difficulty", "departed_at",
     "time_zone", "activity_type", "created_at", "updated_at"}
UserFields == {"id", "name", "email", "created_at", "updated_at"}

\* an entity with some of its fields absent: one at a time, and all at once
AbsentVariants(entity, fields) ==
    {Without(entity, k) : k \in fields}
    \cup {Obj([x \in DOMAIN entity.o \ fields |-> entity.o[x]])}

\* an entity with some of its number fields 0: one at a time, and all at once
ZeroVariants(entity, fields) ==
    {With(entity, k, Num(0)) : k \in fields}
    \cup {Obj([x \in DOMAIN entity.o |-> IF x \in fields THEN Num(0) ELSE entity.o[x]])}

\* the entity as it is, and with number fields absent or 0
NumberVariants(entity, fields) ==
    {entity} \cup AbsentVariants(entity, fields) \cup ZeroVariants(entity, fields)

\* the items of the list payloads
RouteItems == {FullRoute, With(Without(FullRoute, "elevation_gain"), "id", Num(12)), EmptyObj}
EventItems == {FullEvent, With(Without(FullEvent, "ends_at"), "id", Num(32))}

\* meta.pagination of a list payload: absent, last page, more pages
Paginations ==
    {Undefined,
     Obj([record_count |-> Num(7)]),
     Obj([record_count |-> Num(9), next_page_url |-> Null]),
     Obj([record_count |-> Num(25), next_page_url |-> Str("/api/v1/routes.json?page=2")])}

\* { <key>: [...], meta: { pagination } }
ListResponse(key, items, pagination) ==
    IF pagination = Undefined
    THEN Obj([k \in {key} |-> Arr(items)])
    ELSE Obj([k \in {key, "meta"} |->
                IF k = key THEN Arr(items) ELSE Obj([pagination |-> pagination])])

\* CoursePoint and PointOfInterest values
CoursePoints ==
    {Obj([t |-> Str("Left"), d |-> Num(1200), n |-> Str("Turn left"),
          x |-> Num(-122), y |-> Num(45), i |-> Num(10)]),
     Obj([t |-> Str("Summit"), d |-> Num(0), x |-> Num(0), i |-> Num(20), _e |-> Bool(TRUE)])}
PointsOfInterest ==
    {Obj([id |-> Num(1), name |-> Str("Cafe"), type_name |-> Str("Food"),
          lat |-> Num(45), lng |-> Num(-122), url |-> Str("https://cafe.example")]),
     Obj([id |-> Num(2), type |-> Str("water"), description |-> Str("Tap")])}

\* the delta items and the meta of a sync payload
SyncItems ==
    {Obj([action |-> Str("create"), item_type |-> Str("route"), item_id |-> Num(11),
          item_user_id |-> Num(5), datetime |-> Str("2024-03-05T10:30:00Z")]),
     Obj([action |-> Str("delete"), item_type |-> Str("trip"), item_id |-> Num(21),
          item_user_id |-> Num(5), datetime |-> Str("2024-06-01T08:00:00Z")]),
     Obj([action |-> Str("Create"), item_type |-> Str("route"), item_id |-> Num(12),
          item_user_id |-> Num(6), datetime |-> Str("2024-01-01T00:00:00Z"),
          collection |-> Obj([name |-> Str("Favourites")])])}
SyncMetas ==
    {Undefined,
     Obj([rwgps_datetime |-> Str("2024-06-01T08:00:00Z")]),
     Obj([rwgps_datetime |-> Str("2024-06-01T08:00:00Z"),
          next_sync_url |-> Str("/api/v1/sync.json?since=..")])}

SyncResponse(items, meta) ==
    IF meta = Undefined THEN Obj([items |-> Arr(items)])
    ELSE Obj([items |-> Arr(items), meta |-> meta])

\* the decoded payloads handed to each tool's formatter
Payloads(tool) ==
    CASE tool = "get_routes" ->
            {ListResponse("routes", items, p) :
                items \in SeqsUpTo(RouteItems, MaxItems), p \in Paginations}
            \cup {ListResponse("routes", <<v>>, Undefined) :
                    v \in NumberVariants(FullRoute, RouteNumberFields)}
      [] tool = "get_route_details" ->
            {Obj([route |-> With(With(FullRoute, "course_points", Arr(cps)),
                                 "points_of_interest", Arr(pois))]) :
                cps \in SeqsUpTo(CoursePoints, MaxItems),
                pois \in SeqsUpTo(PointsOfInterest, MaxItems)}
            \cup {Obj([route |-> v]) :
                    v \in NumberVariants(FullRoute, RouteNumberFields)
                          \cup AbsentVariants(FullRoute, RouteStringFields \cup {"id"})}
      [] tool = "get_trips" ->
            {ListResponse("trips", <<v>>, p) :
                v \in NumberVariants(FullTrip, TripNumberFields), p \in Paginations}
      [] tool = "get_trip_details" ->
            {Obj([trip |-> v]) :
                v \in NumberVariants(FullTrip, TripNumberFields)
                      \cup AbsentVariants(FullTrip, TripStringFields \cup {"id"})}
      [] tool = "get_current_user" ->
            {Obj([user |-> v]) : v \in {FullUser} \cup AbsentVariants(FullUser, UserFields)}
      [] tool = "get_events" ->
            {ListResponse("events", items, p) :
                items \in SeqsUpTo(EventItems, MaxItems), p \in Paginations}
      [] tool = "get_event_details" ->
            {Obj([event |-> With(FullEvent, "routes", Arr(<<v>>))]) :
                v \in NumberVariants(FullRoute, {"distance"})}
            \cup {Obj([event |-> FullEvent])}
      [] tool = "sync_user_data" ->
            {SyncResponse(items, m) :
                items \in SeqsUpTo(SyncItems, MaxItems), m \in SyncMetas}

\* the payloads of the calls made in between
OtherPayloads(tool) ==
    {JsonParse(body).value : body \in OkBodies(tool) \ {"<html>"}}

\* a formatter that empties the response it was given
CallConsuming(tool, response) ==
    [out |-> Render(tool, response), response |-> EmptyObj]

\* a formatter call: it reads the response and builds its text in a local
\* `let output`; the response is left as it was
Call(tool, response) ==
    [out |-> Render(tool, response), response |-> response]

FmtIdle ==
    [pc |-> "idle", tool |-> "", original |-> Undefined, response |-> Undefined,
     outs |-> <<>>, between |-> 0, other |-> ""]

\* a decoded payload is at hand for a tool's formatter
FmtLoad(tool, payload) ==
    /\ fmt.pc = "idle"
    /\ fmt' = [FmtIdle EXCEPT !.pc = "loaded", !.tool = tool,
                              !.original = payload, !.response = payload]
    /\ UNCHANGED <<env, pc, config, api, tools, exitCode, stderr, stdout, calls,
                   invoked, handlerCount, httpCount>>

\* the tool's formatter is called on the payload
FmtFormat ==
    /\ fmt.pc \in {"loaded", "formatted"}
    /\ Len(fmt.outs) < 2
    /\ LET r == Call(fmt.tool, fmt.response)
       IN fmt' = [fmt EXCEPT !.pc = "formatted", !.outs = Append(@, r.out),
                             !.response = r.response]
    /\ UNCHANGED <<env, pc, config, api, tools, exitCode, stderr, stdout, calls,
                   invoked, handlerCount, httpCount>>

\* between the two calls another formatter is called on another payload,
\* and returns or throws
FmtOther(tool, payload) ==
    /\ fmt.pc = "formatted"
    /\ Len(fmt.outs) = 1
    /\ fmt.between < MaxBetween
    /\ Call(tool, payload).out.threw \in BOOLEAN
    /\ fmt' = [fmt EXCEPT !.between = @ + 1, !.other = tool]
    /\ UNCHANGED <<env, pc, config, api, tools, exitCode, stderr, stdout, calls,
                   invoked, handlerCount, httpCount>>

\* the numbers of seconds handed to formatDuration: every one up to
\* MaxSeconds, and some around a day and a hundred hours
DurationSeconds ==
    1..MaxSeconds \cup {86399, 86400, 86460, 90061, 359999, 360000}

\* a positive whole number of seconds is at hand
FmtLoadSeconds(seconds) ==
    /\ fmt.pc = "idle"
    /\ fmt' = [FmtIdle EXCEPT !.pc = "loaded", !.tool = "formatDuration",
                              !.original = Num(seconds), !.response = Num(seconds)]
    /\ UNCHANGED <<env, pc, config, api, tools, exitCode, stderr, stdout, calls,
                   invoked, handlerCount, httpCount>>

\* formatDuration(seconds) is called
FmtDuration ==
    /\ fmt.pc = "loaded"
    /\ fmt.tool = "formatDuration"
    /\ fmt' = [fmt EXCEPT !.pc = "formatted",
                          !.outs = <<Ret(<<formatDuration(fmt.response)>>)>>]
    /\ UNCHANGED <<env, pc, config, api, tools, exitCode, stderr, stdout, calls,
                   invoked, handlerCount, httpCount>>

Init ==
    /\ env \in [RWGPS_API_KEY : EnvValues, RWGPS_AUTH_TOKEN : EnvValues]
    /\ pc = "load"
    /\ config = Undefined
    /\ api = Undefined
    /\ tools = {}
    /\ exitCode = NotExited
    /\ stderr = <<>>
    /\ stdout = <<>>
    /\ calls = [c \in Slots |-> IdleCall]
    /\ invoked = 0
    /\ handlerCount = 0
    /\ httpCount = 0
    /\ fmt = FmtIdle

Next ==
    \/ LoadConfig
    \/ ConfigError
    \/ RegisterTools
    \/ ConnectOk
    \/ ConnectFail
    \/ \E c \in Slots, tool \in ToolNames :
          \E args \in ArgsFor(tool) : RejectCall(c, tool, args)
    \/ \E c \in Slots, tool \in ToolNames :
          \E args \in ArgsFor(tool) : InvokeHandler(c, tool, args)
    \/ \E c \in Slots : FetchReject(c)
    \/ \E c \in Slots, line \in StatusLines : FetchResolve(c, line)
    \/ \E c \in Slots : BodyFail(c)
    \/ \E c \in Slots, errorText \in ErrorBodies : ReadErrorText(c, errorText)
    \/ \E c \in Slots :
          /\ calls[c].pc = "body"
          /\ \E body \in OkBodies(calls[c].tool) : ReadJson(c, body)
    \/ \E c \in Slots : Respond(c)

Spec == Init /\ [][Next]_vars

\* the arguments of the invocations whose completion is followed: for each
\* tool, arguments its inputSchema accepts and arguments it refuses
LiveArgs(tool) ==
    CASE tool \in {"get_routes", "get_trips", "get_events"} ->
            {Args([page |-> p]) : p \in {Undefined, Num(2), Num(0)}}
      [] tool \in {"get_route_details", "get_trip_details", "get_event_details"} ->
            {Args([id |-> i]) : i \in {Undefined, Num(1)}}
      [] tool = "get_current_user" -> {EmptyObj}
      [] tool = "sync_user_data" ->
            {Args([since |-> s, assets |-> Undefined]) :
                s \in {Undefined, Str("2024-01-01T00:00:00Z")}}

\* the steps of Next, with the arguments drawn from LiveArgs
NextLive ==
    \/ LoadConfig
    \/ ConfigError
    \/ RegisterTools
    \/ ConnectOk
    \/ ConnectFail
    \/ \E c \in Slots, tool \in ToolNames :
          \E args \in LiveArgs(tool) : RejectCall(c, tool, args)
    \/ \E c \in Slots, tool \in ToolNames :
          \E args \in LiveArgs(tool) : InvokeHandler(c, tool, args)
    \/ \E c \in Slots : FetchReject(c)
    \/ \E c \in Slots, line \in StatusLines : FetchResolve(c, line)
    \/ \E c \in Slots : BodyFail(c)
    \/ \E c \in Slots, errorText \in ErrorBodies : ReadErrorText(c, errorText)
    \/ \E c \in Slots :
          /\ calls[c].pc = "body"
          /\ \E body \in OkBodies(calls[c].tool) : ReadJson(c, body)
    \/ \E c \in Slots : Respond(c)

\* the event loop runs a handler's continuation once its awaited promise
\* settles, and the server then writes the reply: a finished invocation is
\* answered.  Nothing obliges the network to settle a fetch() or a body
\* read, and makeRequest passes no AbortSignal and sets no timer.
SpecLive == Init /\ [][NextLive]_vars /\ \A c \in Slots : WF_vars(Respond(c))

\* the formatters on their own, in a process that has its credentials
InitFmt ==
    /\ Init
    /\ env = [RWGPS_API_KEY |-> Str("key"), RWGPS_AUTH_TOKEN |-> Str("key")]

NextFmt ==
    \/ \E tool \in ToolNames : \E payload \in Payloads(tool) : FmtLoad(tool, payload)
    \/ FmtFormat
    \/ \E tool \in ToolNames : \E payload \in OtherPayloads(tool) : FmtOther(tool, payload)

SpecFmt == InitFmt /\ [][NextFmt]_vars

\* formatDuration on its own
NextDuration ==
    \/ \E seconds \in DurationSeconds : FmtLoadSeconds(seconds)
    \/ FmtDuration

SpecDuration == InitFmt /\ [][NextDuration]_vars

(***************************************************************************)
(* Properties                                                              *)
(***************************************************************************)
ListTools == {"get_routes", "get_trips", "get_events"}
DetailTools == {"get_route_details", "get_trip_details", "get_event_details"}

Active(c) == calls[c].pc # "idle"
Done(c) == calls[c].pc = "done"

\* the result is a tool result with exactly one text block
IsToolResult(r) ==
    /\ "content" \in DOMAIN r
    /\ Len(r.content) = 1
    /\ r.content[1].type = "text"

HasErrorFlag(r) == "isError" \in DOMAIN r /\ r.isError

NonSuccess(status) == status < 200 \/ status > 299

\* the whole response, body included, was delivered
Delivered(call) == call.response # NoResponse /\ call.body # NoBody

\* some step of the invocation failed: no response, a broken body, a
\* non-2xx status, a body that is no JSON, or a formatter that threw
StepFailed(call) ==
    \/ ~Delivered(call)
    \/ NonSuccess(call.response.status)
    \/ ~JsonParse(call.body).ok
    \/ Render(call.tool, JsonParse(call.body).value).threw

\* C1: every invocation that entered its handler ends with a tool result
\* of exactly one text block, whatever the client call and the formatter
\* did, and the result carries isError exactly when some step failed.
C1_HandlerContainsEveryFailure ==
    \A c \in Slots :
        Done(c) /\ calls[c].reached =>
            /\ IsToolResult(calls[c].result)
            /\ HasErrorFlag(calls[c].result) <=> StepFailed(calls[c])

C1_Witness ==
    \E c \in Slots :
        /\ Done(c)
        /\ calls[c].thrownBy = "formatter"
        /\ IsToolResult(calls[c].result)
        /\ HasErrorFlag(calls[c].result)

\* an id below 1, or one that is no integer
BadId(v) == v.t # "number" \/ v.half \/ v.n < 1

\* C2: a detail tool called with an id below 1 or with a non-integer id is
\* rejected before any network call: its handler is not entered and it
\* issues no HTTP request.
C2_BadIdIssuesNoRequest ==
    \A c \in Slots :
        Active(c) /\ calls[c].tool \in DetailTools /\ BadId(Get(calls[c].args, "id")) =>
            ~calls[c].reached /\ calls[c].fetches = 0

\* the arguments violate the declared schema of a list tool or of
\* sync_user_data
SchemaViolation(tool, args) ==
    LET page == Get(args, "page")
        since == Get(args, "since")
        assets == Get(args, "assets")
    IN \/ /\ tool \in ListTools
          /\ page.t # "undefined"
          /\ page.t # "number" \/ page.n < 1
       \/ /\ tool = "sync_user_data"
          /\ \/ since.t # "string"
             \/ assets.t \notin {"undefined", "string"}

ReportedKind(r) == r.content[1].text[1]

\* the kind in which an unreachable server is reported
CouldNotReachKind == ReportedKind(HandlerCatch(FetchFailed))

\* C5: a transport failure is reported in a kind of its own: never in the
\* kind of a non-2xx response, and no failure that occurs after a response
\* was delivered is reported in the could-not-reach kind.
C5_TransportKindIsItsOwn ==
    \A c \in Slots :
        Done(c) /\ calls[c].reached /\ HasErrorFlag(calls[c].result) =>
            /\ calls[c].response = NoResponse =>
                  ReportedKind(calls[c].result) # ReportedKind(HandlerCatch(
                      ApiErrorOf([status |-> 500, statusText |-> ""], "")))
            /\ Delivered(calls[c]) =>
                  ReportedKind(calls[c].result) # CouldNotReachKind

Excerpts(body) == {SubSeq(body, 1, k) : k \in 1..Len(body)}

\* C7: the text of a result that reports a RideWithGPSApiError contains
\* the numeric status and an excerpt of the upstream body.
C7_ErrorTextHasStatusAndBody ==
    \A c \in Slots :
        Done(c) /\ calls[c].thrown.name = "RideWithGPSApiError" /\ calls[c].body # "" =>
            /\ ToString(calls[c].thrown.status) \in Range(calls[c].result.content[1].text)
            /\ Excerpts(calls[c].body) \cap Range(calls[c].result.content[1].text) # {}

\* a credential variable is unset or empty
Missing(v) == v.t = "undefined" \/ (v.t = "string" /\ v.s = "")

CredentialMissing == Missing(env.RWGPS_API_KEY) \/ Missing(env.RWGPS_AUTH_TOKEN)

\* C8: while a credential is missing the server is never connected: no
\* tool is registered, no invocation is received, no HTTP request is
\* issued, and once the configuration has been checked the process has
\* exited with a non-zero status.
C8_NoServiceWithoutCredentials ==
    CredentialMissing =>
        /\ pc \in {"load", "validate", "exited"}
        /\ pc = "exited" => exitCode # NotExited /\ 0 \notin exitCode
        /\ tools = {}
        /\ invoked = 0 /\ handlerCount = 0 /\ httpCount = 0
        /\ \A c \in Slots : ~Active(c)
        /\ stdout = <<>>

C8_Witness ==
    /\ Missing(env.RWGPS_AUTH_TOKEN)
    /\ ~Missing(env.RWGPS_API_KEY)
    /\ pc = "exited"
    /\ exitCode = {1}

\* C9: nothing but protocol traffic is ever written to stdout, every
\* diagnostic is on stderr, and a process that has exited exited with a
\* non-zero status after writing a diagnostic.
C9_DiagnosticsOnlyOnStderr ==
    /\ \A i \in 1..Len(stdout) : stdout[i].kind = "protocol"
    /\ \A i \in 1..Len(stderr) : stderr[i].kind = "diagnostic"
    /\ pc = "exited" => exitCode # NotExited /\ 0 \notin exitCode /\ stderr # <<>>

C9_Witness ==
    /\ pc = "exited"
    /\ stderr = <<ServerErrorLog>>
    /\ exitCode = {1}

\* C10: the number of HTTP requests equals the number of handlers
\* entered: an invocation that entered its handler has issued exactly one
\* request, also after that request failed, and one that did not has
\* issued none.
C10_OneRequestPerHandler ==
    /\ httpCount = handlerCount
    /\ \A c \in Slots :
          calls[c].fetches = IF Active(c) /\ calls[c].reached THEN 1 ELSE 0

C10_Witness ==
    /\ httpCount = 2
    /\ calls["a"].tool = calls["b"].tool
    /\ calls["a"].args = calls["b"].args
    /\ calls["a"].reached /\ calls["b"].reached
    /\ calls["a"].fetches = 1 /\ calls["b"].fetches = 1
    /\ Done("a") /\ calls["a"].thrown = FetchFailed

\* the tokens of a URL after its '?', none when it has no query string
QueryString(url) ==
    LET marks == {i \in 1..Len(url) : url[i] = "?"}
    IN IF marks = {} THEN <<>>
       ELSE SubSeq(url, (CHOOSE i \in marks : \A j \in marks : i <= j) + 1, Len(url))

\* the values, in order, of the query parameters of a URL that carry a name
ParamValues(url, name) ==
    LET q == QueryString(url)
        at == {i \in 1..Len(q) : /\ q[i] = name
                                 /\ i = 1 \/ q[i - 1] = "&"
                                 /\ i + 2 <= Len(q) /\ q[i + 1] = "="}
        pick == SelectSeq([i \in 1..Len(q) |-> i], LAMBDA i : i \in at)
    IN [k \in 1..Len(pick) |-> q[pick[k] + 2]]

\* C11: the request of a list tool called with a page >= 1 carries exactly
\* one page parameter, whose value is that page, and nothing else in its
\* query string; called without a page it carries no page parameter and no
\* query string at all.
C11_PageParameterIffPage ==
    \A c \in Slots :
        Active(c) /\ calls[c].reached /\ calls[c].tool \in ListTools =>
            LET page == Get(calls[c].args, "page")
                url == calls[c].request.url
            IN /\ page.t = "undefined" =>
                    /\ QueryString(url) = <<>>
                    /\ "?" \notin Range(url)
                    /\ "page" \notin Range(url)
               /\ page.t = "number" /\ page.n >= 1 =>
                    /\ ParamValues(url, "page") = <<ToStr(page)>>
                    /\ Len(QueryString(url)) = 3

C11_Witness ==
    /\ calls["a"].reached /\ calls["b"].reached
    /\ calls["a"].tool = "get_events"
    /\ calls["a"].args = Args([page |-> Num(2)])
    /\ calls["a"].request.url =
          <<"https://ridewithgps.com", "/api/v1/events.json", "?", "page", "=", "2">>
    /\ calls["b"].tool = "get_routes"
    /\ calls["b"].args = EmptyObj
    /\ calls["b"].request.url = <<"https://ridewithgps.com", "/api/v1/routes.json">>

\* percent-decoding of a query value, as the receiving server does it
FormDecode(s) ==
    CASE s = "2024-01-01T00%3A00%3A00Z" -> "2024-01-01T00:00:00Z"
      [] s = "routes%2Ctrips" -> "routes,trips"
      [] OTHER -> s

\* C12: the request of sync_user_data carries exactly one since parameter,
\* whose value is the caller's since, and it carries an assets parameter
\* exactly when the caller supplied assets, with the supplied value.
C12_SyncForwardsSinceAndAssets ==
    \A c \in Slots :
        Active(c) /\ calls[c].reached /\ calls[c].tool = "sync_user_data" =>
            LET since == Get(calls[c].args, "since")
                assets == Get(calls[c].args, "assets")
                url == calls[c].request.url
                sent(name) == [i \in 1..Len(ParamValues(url, name)) |->
                                  FormDecode(ParamValues(url, name)[i])]
            IN /\ sent("since") = <<since.s>>
               /\ IF assets.t = "undefined"
                  THEN sent("assets") = <<>>
                  ELSE sent("assets") = <<assets.s>>

\* the catalog: the eight tool names of the README
Catalog ==
    {"get_routes", "get_route_details", "get_trips", "get_trip_details",
     "get_current_user", "get_events", "get_event_details", "sync_user_data"}

\* the upstream path, up to the id or the query string, of a tool's resource
CatalogPath(tool) ==
    CASE tool = "get_routes" -> "/api/v1/routes.json"
      [] tool = "get_route_details" -> "/api/v1/routes/"
      [] tool = "get_trips" -> "/api/v1/trips.json"
      [] tool = "get_trip_details" -> "/api/v1/trips/"
      [] tool = "get_current_user" -> "/api/v1/users/current.json"
      [] tool = "get_events" -> "/api/v1/events.json"
      [] tool = "get_event_details" -> "/api/v1/events/"
      [] tool = "sync_user_data" -> "/api/v1/sync.json"

\* what a tool's own formatter says of a payload that holds nothing
NoDataMessage(tool) ==
    CASE tool = "get_routes" -> "No routes found."
      [] tool = "get_route_details" -> "Route not found."
      [] tool = "get_trips" -> "No trips found."
      [] tool = "get_trip_details" -> "Trip not found."
      [] tool = "get_current_user" -> "User information not found."
      [] tool = "get_events" -> "No events found."
      [] tool = "get_event_details" -> "Event not found."
      [] tool = "sync_user_data" -> "No changes found since the specified date."

\* C13: once registered, the tools are exactly the eight of the catalog;
\* an invocation that entered its handler has issued one request, to the
\* endpoint of its own tool's resource, and an empty payload is rendered by
\* the tool's own formatter (the eight no-data messages are all different).
C13_CatalogOfEightOneEndpointEach ==
    /\ tools \in {{}, Catalog}
    /\ pc \in {"connecting", "serving"} => tools = Catalog /\ Cardinality(tools) = 8
    /\ \A c \in Slots :
          /\ Active(c) => calls[c].tool \in Catalog
          /\ Active(c) /\ calls[c].reached =>
                /\ calls[c].fetches = 1
                /\ calls[c].request.url[2] = CatalogPath(calls[c].tool)
                /\ \A other \in Catalog \ {calls[c].tool} :
                      calls[c].request.url[2] # CatalogPath(other)
          /\ Done(c) /\ calls[c].body = "{}" /\ Ok(calls[c].response.status) =>
                calls[c].result = Success(<<NoDataMessage(calls[c].tool)>>)

C13_Witness ==
    /\ tools = Catalog
    /\ calls["a"].reached /\ calls["b"].reached
    /\ Done("a") /\ calls["a"].tool = "get_trip_details"
    /\ calls["a"].request.url =
          <<"https://ridewithgps.com", "/api/v1/trips/", "1", ".json">>
    /\ calls["a"].result = Success(<<"Trip not found.">>)
    /\ Done("b") /\ calls["b"].tool = "get_events"
    /\ calls["b"].request.url = <<"https://ridewithgps.com", "/api/v1/events.json">>
    /\ calls["b"].result = Success(<<"No events found.">>)

\* the decoded payload is not of the shape the tool's formatter expects:
\* no object, no collection or entity, or a delta item without an action
Malformed(tool, value) ==
    \/ value.t # "object"
    \/ DOMAIN value.o = {}
    \/ /\ tool = "sync_user_data"
       /\ Get(value, "items").t = "array"
       /\ \E i \in 1..Len(Get(value, "items").a) :
             Get(Get(value, "items").a[i], "action").t # "string"

\* C20: a payload that decoded but is malformed ends in a normal result
\* that carries the tool's no-data message: no error flag, no exception.
C20_MalformedPayloadDegrades ==
    \A c \in Slots :
        /\ Done(c) /\ Ok(calls[c].response.status) /\ calls[c].decoded
        /\ JsonParse(calls[c].body).ok
        /\ Malformed(calls[c].tool, JsonParse(calls[c].body).value)
        => /\ ~HasErrorFlag(calls[c].result)
           /\ calls[c].thrownBy = "none"
           /\ calls[c].result = Success(<<NoDataMessage(calls[c].tool)>>)

(***************************************************************************)
(* Properties of the formatters (SpecFmt)                                  *)
(***************************************************************************)
\* the formatter has been called on the payload at hand
Formatted == fmt.pc = "formatted"

\* the text of the first call
Text == fmt.outs[1].text

\* the positions, in order, of the numbered entries of a text: a decimal
\* number followed by the marker that opens an entry
EntryStarts(text, marker) ==
    SelectSeq([i \in 1..Len(text) |-> i],
              LAMBDA i : /\ i < Len(text)
                         /\ text[i + 1] = marker
                         /\ text[i] \in {ToString(k) : k \in 1..Len(text)})

\* the token that follows the first occurrence of a label, <<>> without one
After(text, label) ==
    LET at == {i \in 1..Len(text) - 1 : text[i] = label}
    IN IF at = {} THEN <<>>
       ELSE <<text[(CHOOSE i \in at : \A j \in at : i <= j) + 1]>>

\* every element of an array is an object
AllObjects(list) == \A i \in 1..Len(list.a) : list.a[i].t = "object"

\* C14: for a routes payload with N >= 1 routes the get_routes text has
\* exactly N numbered entries, numbered 1..N, the k-th showing the name and
\* id of the k-th route, and the total it reports is the record_count of
\* the pagination metadata.
C14_RoutesListNumbersEveryRoute ==
    Formatted /\ fmt.tool = "get_routes" =>
        LET routes == Get(fmt.original, "routes")
            pagination == GetOpt(Get(fmt.original, "meta"), "pagination")
            N == Len(routes.a)
            starts == EntryStarts(Text, ". **")
        IN N >= 1 /\ AllObjects(routes) =>
            /\ ~fmt.outs[1].threw
            /\ After(Text, "Found ") = <<ToString(N)>>
            /\ Len(starts) = N
            /\ \A k \in 1..N :
                  /\ Text[starts[k]] = ToString(k)
                  /\ Text[starts[k] + 2] =
                        ToStr(OrElse(Get(routes.a[k], "name"), Str("Unnamed Route")))
                  /\ Text[starts[k] + 4] = ToStr(Get(routes.a[k], "id"))
            /\ pagination.t = "object" =>
                  After(Text, " of ") = <<ToStr(Get(pagination, "record_count"))>>

C14_Witness ==
    /\ Formatted /\ fmt.tool = "get_routes"
    /\ Len(Get(fmt.original, "routes").a) = 3
    /\ Get(fmt.original, "routes").a[1] # Get(fmt.original, "routes").a[3]
    /\ Get(fmt.original, "routes").a[3] = FullRoute
    /\ EntryStarts(Text, ". **") # <<>>
    /\ Text[EntryStarts(Text, ". **")[3]] = "3"
    /\ Text[EntryStarts(Text, ". **")[3] + 2] = "Loop"
    /\ After(Text, " of ") = <<"25">>

EntityOf(tool, payload) ==
    CASE tool = "get_routes" -> Get(payload, "routes").a[1]
      [] tool = "get_trips" -> Get(payload, "trips").a[1]
      [] tool = "get_route_details" -> Get(payload, "route")
      [] tool = "get_trip_details" -> Get(payload, "trip")
      [] tool = "get_event_details" -> Get(Get(payload, "event"), "routes").a[1]

HasEntity(tool, payload) ==
    CASE tool \in {"get_routes", "get_trips"} ->
            Len(Get(payload, IF tool = "get_routes" THEN "routes" ELSE "trips").a) = 1
      [] tool \in {"get_route_details", "get_trip_details"} -> TRUE
      [] tool = "get_event_details" -> Get(Get(payload, "event"), "routes").t = "array"
      [] OTHER -> FALSE

WithEntity(tool, payload, entity) ==
    CASE tool = "get_routes" -> With(payload, "routes", Arr(<<entity>>))
      [] tool = "get_trips" -> With(payload, "trips", Arr(<<entity>>))
      [] tool = "get_route_details" -> With(payload, "route", entity)
      [] tool = "get_trip_details" -> With(payload, "trip", entity)
      [] tool = "get_event_details" ->
            With(payload, "event", With(Get(payload, "event"), "routes", Arr(<<entity>>)))

\* the optional number fields of the entity a tool renders
NumberFieldsOf(tool) ==
    CASE tool \in {"get_routes", "get_route_details"} -> RouteNumberFields
      [] tool \in {"get_trips", "get_trip_details"} -> TripNumberFields
      [] tool = "get_event_details" -> {"distance"}

\* C16: a payload in which an optional number field is 0 renders to the
\* text that the same payload without that field renders to.
C16_ZeroRendersAsAbsent ==
    Formatted /\ HasEntity(fmt.tool, fmt.original) =>
        LET entity == EntityOf(fmt.tool, fmt.original)
        IN \A k \in NumberFieldsOf(fmt.tool) :
              Get(entity, k) = Num(0) =>
                  fmt.outs[1] =
                      Render(fmt.tool, WithEntity(fmt.tool, fmt.original, Without(entity, k)))

\* the label in front of each field in the text of a detail formatter
FieldLabels(tool) ==
    CASE tool = "get_route_details" ->
            {<<"ID: ", "id">>, <<"Description: ", "description">>,
             <<"Visibility: ", "visibility">>, <<"Distance: ", "distance">>,
             <<"Elevation Gain: ", "elevation_gain">>,
             <<"Elevation Loss: ", "elevation_loss">>,
             <<"Track Type: ", "track_type">>, <<"Terrain: ", "terrain">>,
             <<"Difficulty: ", "difficulty">>, <<"Surface: ", "surface">>,
             <<"Unpaved Percentage: ", "unpaved_pct">>,
             <<"Created: ", "created_at">>, <<"Updated: ", "updated_at">>}
      [] tool = "get_trip_details" ->
            {<<"ID: ", "id">>, <<"Description: ", "description">>,
             <<"Visibility: ", "visibility">>, <<"Activity Type: ", "activity_type">>,
             <<"Timezone: ", "time_zone">>, <<"Departed: ", "departed_at">>,
             <<"Distance: ", "distance">>, <<"Duration: ", "duration">>,
             <<"Moving Time: ", "moving_time">>,
             <<"Average: ", "avg_speed">>, <<"Maximum: ", "max_speed">>,
             <<"Gain: ", "elevation_gain">>, <<"Loss: ", "elevation_loss">>,
             <<"Calories: ", "calories">>,
             <<"Created: ", "created_at">>, <<"Updated: ", "updated_at">>}
      [] tool = "get_current_user" ->
            {<<"Name: ", "name">>, <<"Email: ", "email">>, <<"User ID: ", "id">>,
             <<"Member since: ", "created_at">>, <<"Last updated: ", "updated_at">>}
      [] OTHER -> {}

\* the explicit placeholders of the formatters
Placeholders == {"Unknown", "No description", "Not provided"}

\* C17: in the text of a detail formatter every field that is missing or
\* falsy in the payload has its label followed by an explicit placeholder:
\* the line is not left out, and what follows the label is not "undefined",
\* "null", "0" or an empty string.
C17_MissingFieldRendersPlaceholder ==
    Formatted /\ ~fmt.outs[1].threw =>
        LET entity == CASE fmt.tool = "get_route_details" -> Get(fmt.original, "route")
                        [] fmt.tool = "get_trip_details" -> Get(fmt.original, "trip")
                        [] fmt.tool = "get_current_user" -> Get(fmt.original, "user")
                        [] OTHER -> Undefined
        IN \A p \in FieldLabels(fmt.tool) :
              ~Truthy(Get(entity, p[2])) =>
                  \E ph \in Placeholders : After(Text, p[1]) = <<ph>>

\* C18: for a sync payload with N >= 1 delta items the sync_user_data text
\* has exactly N numbered entries, numbered 1..N, the k-th showing the
\* k-th item's action in upper case, its type, its id, its date and its
\* owner; the text ends with the next-sync hint exactly when the metadata
\* holds a next_sync_url.
C18_SyncListsEveryItem ==
    Formatted /\ fmt.tool = "sync_user_data" =>
        LET items == Get(fmt.original, "items").a
            meta == Get(fmt.original, "meta")
            N == Len(items)
            starts == EntryStarts(Text, ". **")
        IN N >= 1 =>
            /\ ~fmt.outs[1].threw
            /\ After(Text, "Found ") = <<ToString(N)>>
            /\ Len(starts) = N
            /\ \A k \in 1..N :
                  LET s == starts[k]
                      item == items[k]
                  IN /\ Text[s] = ToString(k)
                     /\ Text[s + 2] \in {"CREATE", "UPDATE", "DELETE"}
                     /\ Text[s + 2] = ToUpperCase(Get(item, "action").s)
                     /\ Text[s + 4] = Get(item, "item_type").s
                     /\ Text[s + 6] = ToString(Get(item, "item_id").n)
                     /\ Text[s + 8] = "   Date: "
                     /\ Text[s + 9] = "locale(" \o Get(item, "datetime").s \o ")"
                     /\ Text[s + 11] = "   Owner: User "
                     /\ Text[s + 12] = ToString(Get(item, "item_user_id").n)
            /\ "\n**Next Sync:**\n" \in Range(Text)
                  <=> meta.t = "object" /\ "next_sync_url" \in DOMAIN meta.o

C18_Witness ==
    /\ Formatted /\ fmt.tool = "sync_user_data"
    /\ Len(Get(fmt.original, "items").a) = 2
    /\ Get(Get(fmt.original, "items").a[1], "action") = Str("create")
    /\ Get(Get(fmt.original, "items").a[2], "action") = Str("delete")
    /\ Get(Get(fmt.original, "meta"), "next_sync_url").t = "string"
    /\ Len(EntryStarts(Text, ". **")) = 2
    /\ Text[EntryStarts(Text, ". **")[1] + 2] = "CREATE"
    /\ Text[EntryStarts(Text, ". **")[2] + 2] = "DELETE"
    /\ "Next sync URL available\n" \in Range(Text)

\* the position of the first occurrence of a token in a text, 0 without one
At(text, token) ==
    LET at == {i \in 1..Len(text) : text[i] = token}
    IN IF at = {} THEN 0 ELSE CHOOSE i \in at : \A j \in at : i <= j

\* C19: for a route with C >= 1 course points and P >= 1 points of
\* interest the get_route_details text has a "Course Points (C)" section
\* followed by a "Points of Interest (P)" section; the first holds exactly
\* C numbered entries, the second exactly P, each numbered from 1 and
\* showing the points in the order of the payload.
C19_RouteDetailSectionsListEveryPoint ==
    Formatted /\ fmt.tool = "get_route_details" =>
        LET route == Get(fmt.original, "route")
            cps == Get(route, "course_points")
            pois == Get(route, "points_of_interest")
            cpAt == At(Text, "\n**Course Points (")
            poiAt == At(Text, "\n**Points of Interest (")
            cs == EntryStarts(Text, ". ")
            ps == EntryStarts(Text, ". **")
        IN cps.t = "array" /\ pois.t = "array" /\ Len(cps.a) >= 1 /\ Len(pois.a) >= 1 =>
            /\ ~fmt.outs[1].threw
            /\ 0 < cpAt /\ cpAt < poiAt
            /\ Text[cpAt + 1] = ToString(Len(cps.a)) /\ Text[cpAt + 2] = "):**\n"
            /\ Text[poiAt + 1] = ToString(Len(pois.a)) /\ Text[poiAt + 2] = "):**\n"
            /\ Len(cs) = Len(cps.a)
            /\ Len(ps) = Len(pois.a)
            /\ \A k \in 1..Len(cs) :
                  /\ cpAt < cs[k] /\ cs[k] < poiAt
                  /\ Text[cs[k]] = ToString(k)
                  /\ Text[cs[k] + 2] = Get(cps.a[k], "t").s
            /\ \A k \in 1..Len(ps) :
                  /\ poiAt < ps[k]
                  /\ Text[ps[k]] = ToString(k)
                  /\ Text[ps[k] + 2] =
                        ToStr(OrElse(Get(pois.a[k], "name"), Str("Unnamed POI")))

C19_Witness ==
    /\ Formatted /\ fmt.tool = "get_route_details"
    /\ Get(Get(fmt.original, "route"), "course_points").t = "array"
    /\ Get(Get(fmt.original, "route"), "points_of_interest").t = "array"
    /\ Len(Get(Get(fmt.original, "route"), "course_points").a) = 3
    /\ Len(Get(Get(fmt.original, "route"), "points_of_interest").a) = 2
    /\ Get(Get(Get(fmt.original, "route"), "course_points").a[1], "t") = Str("Summit")
    /\ Get(Get(Get(fmt.original, "route"), "course_points").a[3], "t") = Str("Left")
    /\ After(Text, "\n**Course Points (") = <<"3">>
    /\ After(Text, "\n**Points of Interest (") = <<"2">>
    /\ Len(EntryStarts(Text, ". ")) = 3
    /\ Text[EntryStarts(Text, ". ")[3] + 2] = "Left"
    /\ Len(EntryStarts(Text, ". **")) = 2

(***************************************************************************)
(* Report or error message, never a mix (Spec).                            *)
(***************************************************************************)
\* the tokens of a text
Tokens(text) == {text[i] : i \in DOMAIN text}

\* the decoded response of an invocation whose body was parsed
DecodedOf(call) == JsonParse(call.body).value

\* C21: the text of every tool result is either the complete report the
\* formatter returns for the decoded response or the complete message of the
\* error that was thrown, in a single content item; when the formatter threw
\* part-way, no token of the report text built before the throw is in the
\* result.
C21_ResultIsReportOrErrorNeverMix ==
    \A c \in Slots :
        (Done(c) /\ calls[c].reached) =>
            LET call == calls[c]
                result == call.result
            IN /\ IsToolResult(result)
               /\ Len(result.content) = 1
               /\ IF call.thrown = NoError
                  THEN /\ call.decoded
                       /\ ~Render(call.tool, DecodedOf(call)).threw
                       /\ result.content[1].text = Render(call.tool, DecodedOf(call)).text
                  ELSE result.content[1].text = formatError(call.thrown)
               /\ call.thrownBy = "formatter" =>
                     /\ Render(call.tool, DecodedOf(call)).threw
                     /\ Tokens(Render(call.tool, DecodedOf(call)).partial)
                            \cap Tokens(result.content[1].text) = {}

\* an invocation ended by a formatter that threw after it had built part of
\* the report
C21_Witness ==
    \E c \in Slots :
        /\ Done(c)
        /\ calls[c].thrownBy = "formatter"
        /\ calls[c].tool = "sync_user_data"
        /\ Len(Render(calls[c].tool, DecodedOf(calls[c])).partial) > 3
        /\ calls[c].result.content[1].text = formatError(calls[c].thrown)

(***************************************************************************)
(* Independence of invocations (Spec).                                     *)
(***************************************************************************)
\* the result of a finished invocation as a function of its own tool, its
\* own upstream response and its own body
ResultOf(call) ==
    IF call.response = NoResponse THEN HandlerCatch(FetchFailed)
    ELSE IF call.body = NoBody THEN HandlerCatch(Terminated)
    ELSE IF ~Ok(call.response.status)
         THEN HandlerCatch(ApiErrorOf(call.response, call.body))
    ELSE IF ~JsonParse(call.body).ok
         THEN HandlerCatch(JsonParse(call.body).error)
    ELSE HandlerReturn(call.tool, DecodedOf(call))

\* one step of a serving process, whatever the other slot is doing
IndependentStep ==
    /\ pc = "serving" =>
          /\ pc' = "serving"
          /\ exitCode' = NotExited
          /\ config' = config
          /\ api' = api
          /\ api = NewApi(config)
    /\ \A c \in Slots :
          calls'[c] # calls[c] =>
              \A d \in Slots \ {c} : calls'[d] = calls[d]
    /\ \A c \in Slots :
          (calls'[c].reached /\ calls'[c].pc # "idle") =>
              /\ calls'[c].request =
                     Request(NewApi(config'), Delegate(calls'[c].tool, calls'[c].args))
              /\ calls'[c].pc = "done" => calls'[c].result = ResultOf(calls'[c])

\* C22: invocations are independent under every interleaving: a step of one
\* invocation leaves every other invocation as it was, the request and the
\* result of an invocation are functions of its own arguments and its own
\* upstream response (with the credentials and base URL fixed at startup),
\* the shared client and configuration never change while the server
\* serves, and no step of an invocation, failed or not, ends the serving.
C22_InvocationsAreIndependent == [][IndependentStep]_vars

\* two invocations in flight together: one has failed, the other has
\* succeeded, and the server still serves
C22_Witness ==
    /\ pc = "serving"
    /\ Done("a") /\ calls["a"].reached /\ calls["a"].thrown # NoError
    /\ Done("b") /\ calls["b"].reached /\ calls["b"].thrown = NoError
    /\ ~HasErrorFlag(calls["b"].result)
    /\ calls["b"].result = ResultOf(calls["b"])

(***************************************************************************)
(* formatDuration (SpecDuration).                                          *)
(***************************************************************************)
MaxHours == 100

\* the whole hours in s seconds and the whole minutes left after them, by
\* counting
WholeHours(s) == Cardinality({k \in 1..MaxHours : 3600 * k <= s})
WholeMinutes(s) == Cardinality({k \in 1..59 : 3600 * WholeHours(s) + 60 * k <= s})

\* C23: for every positive whole number of seconds s, formatDuration
\* renders "Hh Mm" where H is the number of whole hours in s and M the number
\* of whole minutes left, so that 0 <= M <= 59 and
\* 3600*H + 60*M <= s < 3600*H + 60*M + 60.
C23_DurationIsFlooredHoursAndMinutes ==
    (Formatted /\ fmt.tool = "formatDuration") =>
        LET s == fmt.original.n
            H == WholeHours(s)
            M == WholeMinutes(s)
        IN /\ s >= 1
           /\ Text = <<ToString(H) \o "h " \o ToString(M) \o "m">>
           /\ 0 <= M /\ M <= 59
           /\ 3600 * H + 60 * M <= s
           /\ s < 3600 * H + 60 * M + 60

\* one second short of two hours is rendered with 59 minutes
C23_Witness ==
    /\ Formatted
    /\ fmt.tool = "formatDuration"
    /\ fmt.original = Num(7199)
    /\ Text = <<"1h 59m">>

(***************************************************************************)
(* The further-pages hint of the list formatters (SpecFmt).                *)
(***************************************************************************)
NextPageHint == "Use the next page parameter to get more results."

\* the key under which a list tool's payload holds its items
ListKeyOf(tool) ==
    CASE tool = "get_routes" -> "routes"
      [] tool = "get_trips" -> "trips"
      [] tool = "get_events" -> "events"

\* the payload's pagination metadata carries a next-page indicator: a
\* next_page_url that is a string, not null and not left out
HasNextPage(payload) ==
    /\ "meta" \in DOMAIN payload.o
    /\ "pagination" \in DOMAIN payload.o.meta.o
    /\ "next_page_url" \in DOMAIN payload.o.meta.o.pagination.o
    /\ payload.o.meta.o.pagination.o.next_page_url.t = "string"

\* C24: for the routes, trips and events list formatters on a non-empty
\* list, the text holds the further-pages hint if and only if the payload's
\* pagination metadata carries a next-page indicator; the hint, when shown,
\* is shown once, at the end of the text.
C24_HintIffNextPageIndicator ==
    (Formatted /\ fmt.tool \in ListTools) =>
        LET items == Get(fmt.original, ListKeyOf(fmt.tool))
            at == {i \in 1..Len(Text) : Text[i] = NextPageHint}
        IN (Len(items.a) >= 1 /\ AllObjects(items)) =>
              /\ ~fmt.outs[1].threw
              /\ (at # {}) <=> HasNextPage(fmt.original)
              /\ at \subseteq {Len(Text)}

\* a final page (next_page_url: null) rendered without the hint
C24_Witness ==
    /\ Formatted
    /\ fmt.tool = "get_events"
    /\ Len(Get(fmt.original, "events").a) = 2
    /\ "meta" \in DOMAIN fmt.original.o
    /\ Get(Get(Get(fmt.original, "meta"), "pagination"), "next_page_url") = Null
    /\ After(Text, " of ") = <<"9">>
    /\ NextPageHint \notin Tokens(Text)

(***************************************************************************)
(* Completion of invocations (SpecLive).                                   *)
(***************************************************************************)
\* the handler waits for its HTTP exchange: for fetch() or for the body
Pending(c) == calls[c].pc \in {"fetch", "body"}

\* the HTTP exchange of a finished invocation is over: fetch() rejected, or
\* it resolved and the body was read or failed
HttpCompleted(call) ==
    \/ call.response = NoResponse /\ call.thrown = FetchFailed
    \/ call.response # NoResponse /\ call.body = NoBody /\ call.thrown = Terminated
    \/ call.response # NoResponse /\ call.body # NoBody

\* every invocation made so far is either in flight or has been answered
\* once
OneReplyEach ==
    /\ \A i \in 1..Len(stdout) : stdout[i].kind = "protocol"
    /\ Len(stdout) + Cardinality({c \in Slots : Active(c)}) = invoked

\* a pending invocation stops being pending only when its HTTP exchange is
\* over: there is no timeout and no cancellation
PendingUntilCompleted ==
    \A c \in Slots :
        (Pending(c) /\ ~Pending(c)') =>
            /\ calls'[c].pc = "done"
            /\ HttpCompleted(calls'[c])
            /\ calls'[c].result # NoResult

\* C25: an invocation whose HTTP exchange has completed, with a response or
\* with a transport failure, is eventually answered, and every invocation is
\* answered exactly once; while its exchange has not completed it has no
\* result, and it leaves that state only through the completion of the
\* exchange.
C25_CompletedRequestReturnsOneResult ==
    /\ [](pc = "serving" => OneReplyEach)
    /\ [](\A c \in Slots : Pending(c) => calls[c].result = NoResult)
    /\ [][PendingUntilCompleted]_vars
    /\ \A c \in Slots :
          (Done(c) /\ calls[c].reached) ~> (calls[c].pc = "idle")

\* of two invocations that entered their handlers, one has been answered
\* and the other still awaits its exchange, without a result
C25_Witness ==
    /\ pc = "serving"
    /\ Len(stdout) = 1
    /\ invoked = 2
    /\ handlerCount = 2
    /\ calls["a"].pc = "idle"
    /\ Pending("b")
    /\ calls["b"].result = NoResult

====
